---- MODULE Spec2Model ----
(***************************************************************************)
(* light-ss: a local SOCKS5 / HTTP forwarding proxy over Shadowsocks.      *)
(*                                                                         *)
(* Four specifications share this module:                                  *)
(*   Spec        connection lifecycle, stats counters, hot reload          *)
(*   SpecReload  Manager.GetSSClient / Manager.ReloadConfig at statement   *)
(*               granularity, with the RWMutex                             *)
(*   SpecDetect  UnifiedProxy.handleConnection and bufferConn.Read at      *)
(*               byte granularity                                          *)
(*   SpecDial    Client.DialContext at byte granularity                    *)
(***************************************************************************)
EXTENDS Integers, Sequences, FiniteSets, TLC

VARIABLES
    \* ---- Spec: Manager, UnifiedProxy, Collector -------------------------
    ssClient,      \* Manager.ssClient
    oldClients,    \* Manager.oldClients
    config,        \* Manager.config: [Shadowsocks, Proxies]
    captured,      \* the client NewHTTPServer / NewSOCKS5Server were built with
    collectorOn,   \* collector != nil (cfg.Stats.Enabled)
    nextId,        \* identity of the next Client allocated by NewClient
    reloads,       \* number of ReloadConfig calls made so far
    lastReload,    \* what the last ReloadConfig call returned
    listener,      \* the listener socket
    ctxDone,       \* Manager.ctx cancelled
    acceptLoop,    \* UnifiedProxy.Start's accept loop
    crashed,       \* the process died of an unrecovered panic
    stats,         \* the Collector's atomic counters
    conn,          \* per accepted connection: its handler's position and sockets
    \* ---- SpecReload: callers of GetSSClient and ReloadConfig -------------
    mu,            \* Manager.ssClientMu: [writer, readers]
    pc,            \* each caller's position
    loc,           \* each caller's locals and return value
    published,     \* ids of the clients published so far, in order
    returnedUpTo,  \* how many publications belong to reloads that have returned
    \* ---- SpecDetect: one client connection, byte by byte ------------------
    toSend,        \* bytes the client has yet to send
    sent,          \* bytes the client has sent, in order
    sock,          \* bytes received on the socket and not yet read
    peerClosed,    \* the client closed its side
    rbuf,          \* the bufio.Reader's buffered, unread bytes
    seen,          \* bytes the protocol handler has read, in order
    route,         \* none | socks5 | http | closed
    \* ---- SpecDial: one call of Client.DialContext, write by write ---------
    dClient,       \* the Client dialing
    dAddr,         \* the requested target
    dStep,         \* position in DialContext
    tgt,           \* socks.ParseAddr's result (<<>> is nil)
    rc,            \* the layers of rc, innermost first (<<>> is nil)
    tcpSock,       \* none | open | closed: the socket to the server
    wire,          \* what has been written to the socket, in order
    firstWrite,    \* obfsHTTPConn.firstWrite
    saltSent,      \* the cipher stream's writer is initialised
    dRet,          \* none | ok | error | panic: what the caller got
    appWrites,     \* writes the caller has made on the returned stream
    \* ---- SpecStats: TrackedConns over one Collector ----------------------
    tconns,        \* per TrackedConn: none | open | closed
    \* ---- SpecShutdown: Manager.Shutdown against the unified proxy --------
    shutdown,      \* idle | cancelled | returned: Manager.Shutdown's position
    \* ---- SpecStart: Manager.Start and the start command -----------------
    lcfg,          \* the listeners configured: unified, or http and/or socks5
    inUse,         \* the listeners whose address is already taken
    startPc,       \* idle | call | http | socks5 | returned: Manager.Start
    startRet,      \* none | nil | error: what Manager.Start returned
    bound,         \* per listener: none | starting | listening | failed
    exit,          \* none | serving | nonzero: the start command
    \* ---- SpecCipher: normalizeCipherName applied again and again ---------
    cipherBase,    \* the cipher name given, as it is usually spelled
    casing,        \* how its letters are cased in the input
    outs,          \* the input, then the result of each normalization
    \* ---- SpecConfig: runStart building the effective configuration -------
    cfgIn,         \* what the file, the environment and the flags give
    runCfg,           \* the Config as it stands
    cfgPc,         \* idle | load | env | validate | normalize | flags | final | done
    cfgErr,        \* runStart returned an error
    \* ---- SpecObfsWrite: Write on an HTTP-obfs connection ------------------
    hcHost,        \* obfsHTTPConn.host
    hcFirstWrite,  \* obfsHTTPConn.firstWrite
    hcWire,        \* the bytes the underlying connection has taken
    hcWritten,     \* the payloads of the Write calls made, in order
    hcRet,         \* what the last Write returned: [n, err]
    hcFailed,      \* an underlying Write has returned an error
    \* ---- SpecObfsRead: Read on an HTTP-obfs connection --------------------
    hrStream,      \* the bytes the server sends, in order
    hrArrived,     \* how many of them have reached this end
    hrClosed,      \* the server has closed after sending them all
    hrOff,         \* how many of them c.reader has consumed
    hrFirstRead,   \* obfsHTTPConn.firstRead
    hrDelivered,   \* the bytes Read has handed to its callers, in order
    hrRet,         \* what the last Read returned: [n, err]
    \* ---- SpecTLSRead: Read on a TLS-obfs connection -----------------------
    trPayload,     \* the bytes the server means to deliver
    trStream,      \* the records it sends for them, as bytes in order
    trArrived,     \* how many of those bytes have reached this end
    trClosed,      \* the server has closed after sending them all
    trOff,         \* how many of them Read has consumed
    trDelivered,   \* the bytes Read has handed to its callers, in order
    trRet,         \* what the last Read returned: [n, err]
    \* ---- SpecTLSWrite: Write on a TLS-obfs connection ---------------------
    twWire,        \* what the underlying connection has taken, record by record
    twCalls,       \* len(b) of the Write calls made, in order
    twRet,         \* what the last Write returned: [n, err]
    twFailed,      \* an underlying Write has returned an error
    \* ---- SpecTarget: from the request's authority to the target sent ------
    tqReq,         \* the request: method, authority, and the listener's mode
    tqAddr,        \* the addr the handler gives DialContext
    tqTgt,         \* tgt of DialContext, <<>> while there is none
    tqStep,        \* idle | request | parse | dial | sent | done
    tqOut,         \* what the client is answered: none | 200 | 502 | 500
    \* ---- SpecRelay: the two copies of one CONNECT tunnel ------------------
    rlPeer,        \* per side: bytes the peer has yet to send, bytes sent and unread, FIN sent
    rlSock,        \* per side: the proxy's socket, open | closed
    rlRecv,        \* per side: how many bytes the proxy has written to it
    rlCopy,        \* per copy goroutine: where it is, and the result of its io.Copy
    errCh,         \* the results sent and not yet received
    rlHandler,     \* idle | wait | returned
    rlGot,         \* the result handleConnect received
    rlIdle,        \* time since a byte last moved
    \* ---- SpecPool: client connections and the upstream connections made ---
    plConn,        \* per client connection: its request, how far it is, its dials, its upstream
    plUp,          \* the upstream connections made, in order: target, state, who used it
    stSamples,     \* SpeedTracker.samples
    stNow,         \* the clock, in ticks, at the latest AddSample
    stCalls,       \* number of AddSample calls made
    stAdded,       \* the sample the latest AddSample appended
    stSpeed,       \* what the latest GetCurrentSpeed returned
    apReq,         \* the requests /stop has answered, each with its goroutine
    sigChan,       \* runStart's signal channel: signals delivered, not yet received
    runPc,         \* where runStart is: "waiting" on sigChan or "shutdown"
    apListener,    \* the proxy listener as the /stop caller sees it
    ctr,           \* the Collector's connection counters, one atomic each
    tc,            \* per TrackedConn: where NewTrackedConn is, closed, mu, the socket
    closer,        \* per TrackedConn and caller of Close: the caller's position
    snap,          \* the Stats value GetStats is building
    gsPc,          \* where GetStats is: 0 not called, the index of its next Load, or past the last
    gcConfig,      \* m.config.Shadowsocks, the struct GetConfig's pointer leads to
    gcMu,          \* TRUE while a ReloadConfig holds ssClientMu for writing
    gcWriter,      \* the ReloadConfig under way: its position, newConfig, fields left to store
    gcReloads,     \* number of ReloadConfig calls made
    gcReader,      \* handleConfig: its position and the response it builds
    gcPublished,   \* the Shadowsocks settings of the clients published so far
    sdOn,          \* cfg.Stats.Enabled: the manager has a collector and a reporter
    sdPc,          \* where Manager.Shutdown is
    sdCalls,       \* number of Manager.Shutdown invocations begun
    sdCtx,         \* the manager's context: "live" or "cancelled"
    sdDone,        \* Collector.done: "open" or "closed"
    sdTicker,      \* Collector.ticker: "running" or "stopped"
    sdSampler,     \* the sampleSpeed goroutine: "running", "returned" or "none"
    sdTicks,       \* samples the sampleSpeed goroutine has taken
    sdReporter,    \* the Reporter's goroutine: "running", "cancelled", "returned" or "none"
    sdListener,    \* the unified proxy's listener: "open" or "closed"
    sdPanic        \* TRUE once a goroutine has panicked

mainVars == <<ssClient, oldClients, config, captured, collectorOn, nextId,
              reloads, lastReload, listener, ctxDone, acceptLoop, crashed,
              stats, conn>>

reloadVars == <<mu, pc, loc, published, returnedUpTo>>

detectVars == <<toSend, sent, sock, peerClosed, rbuf, seen, route>>

dialVars == <<dClient, dAddr, dStep, tgt, rc, tcpSock, wire, firstWrite,
              saltSent, dRet, appWrites>>

statsVars == <<tconns>>

shutdownVars == <<shutdown>>

startVars == <<lcfg, inUse, startPc, startRet, bound, exit>>

cipherVars == <<cipherBase, casing, outs>>

configVars == <<cfgIn, runCfg, cfgPc, cfgErr>>

obfsWriteVars == <<hcHost, hcFirstWrite, hcWire, hcWritten, hcRet, hcFailed>>

obfsReadVars == <<hrStream, hrArrived, hrClosed, hrOff, hrFirstRead, hrDelivered, hrRet>>

tlsReadVars == <<trPayload, trStream, trArrived, trClosed, trOff, trDelivered, trRet>>

tlsWriteVars == <<twWire, twCalls, twRet, twFailed>>

targetVars == <<tqReq, tqAddr, tqTgt, tqStep, tqOut>>

relayVars == <<rlPeer, rlSock, rlRecv, rlCopy, errCh, rlHandler, rlGot, rlIdle>>

poolVars == <<plConn, plUp>>

speedVars == <<stSamples, stNow, stCalls, stAdded, stSpeed>>

stopVars == <<apReq, sigChan, runPc, apListener>>

counterVars == <<ctr, tc, closer, snap, gsPc>>

getConfigVars == <<gcConfig, gcMu, gcWriter, gcReloads, gcReader, gcPublished>>

stopTwiceVars == <<sdOn, sdPc, sdCalls, sdCtx, sdDone, sdTicker, sdSampler, sdTicks, sdReporter, sdListener, sdPanic>>

\* What the actions of Spec leave alone.
sideVars == <<reloadVars, detectVars, dialVars, statsVars, shutdownVars, startVars, cipherVars, configVars, obfsWriteVars, obfsReadVars, tlsReadVars, tlsWriteVars, targetVars, relayVars, poolVars, speedVars, stopVars, counterVars, getConfigVars, stopTwiceVars>>

vars == <<mainVars, reloadVars, detectVars, dialVars, statsVars, shutdownVars, startVars, cipherVars, configVars, obfsWriteVars, obfsReadVars, tlsReadVars, tlsWriteVars, targetVars, relayVars, poolVars, speedVars, stopVars, counterVars, getConfigVars, stopTwiceVars>>

(***************************************************************************)
(* Bounds of the model.                                                    *)
(***************************************************************************)
MaxConns == 1
MaxReloads == 1
MaxRelay == 1
HandshakeTimeout == 1
MaxReaders == 1
MaxWriters == 2
MaxStream == 3
MaxRead == 2
BufSize == 2
MaxAppWrites == 1
MaxTracked == 2
MaxChunk == 2
MaxBytes == 3
MaxNormalize == 2
MaxObfsWrites == 2
MaxPayload == 2
LongPayload == 10
MaxReadBuf == 2
MaxTLSPayload == 2
MaxTLSWrites == 2
MaxRelayBytes == 1
IdleTimeout == 1
MaxClients == 2
MaxSamples == 3
TicksPerSecond == 2
MaxStopRequests == 3
MaxCounted == 2
MaxShutdowns == 2

ConnIds == 1..MaxConns

(***************************************************************************)
(* Configuration values.                                                   *)
(***************************************************************************)
NoOpts == [set |-> FALSE, Obfs |-> "", ObfsHost |-> ""]

Opts(mode) == [set |-> TRUE, Obfs |-> mode, ObfsHost |-> ""]

SSConfig(server, cipher, plugin, opts) ==
    [Server |-> server, Password |-> "pw", Cipher |-> cipher,
     Plugin |-> plugin, PluginOpts |-> opts, Timeout |-> 300]

InitialSS == SSConfig("s0:8388", "AEAD_CHACHA20_POLY1305", "", NoOpts)

\* The parameter sets a reload request may carry.
ReloadInputs ==
    { SSConfig("s1:8388", "AEAD_AES_256_GCM", "", NoOpts),
      SSConfig("s1:8388", "rc4-md5", "", NoOpts),
      SSConfig("s1:8388", "AEAD_CHACHA20_POLY1305", "simple-obfs", NoOpts),
      SSConfig("s1:8388", "AEAD_CHACHA20_POLY1305", "simple-obfs", Opts("tls")),
      SSConfig("s1:8388", "AEAD_CHACHA20_POLY1305", "simple-obfs", Opts("quic")) }

\* The cipher names core.PickCipher accepts (after upper-casing).
SupportedCiphers ==
    { "AEAD_AES_128_GCM", "AEAD_AES_256_GCM", "AEAD_CHACHA20_POLY1305" }

NoPlugin == [name |-> "none", mode |-> "", obfsHost |-> ""]

Failed == [ok |-> FALSE]

(***************************************************************************)
(* plugin.NewSimpleObfs: options are required; the mode defaults to http,  *)
(* the host to www.bing.com in http mode. The mode is not validated here.  *)
(***************************************************************************)
NewSimpleObfs(opts) ==
    IF ~opts.set THEN Failed
    ELSE LET mode == IF opts.Obfs = "" THEN "http" ELSE opts.Obfs
             host == IF opts.ObfsHost = "" /\ mode = "http"
                     THEN "www.bing.com" ELSE opts.ObfsHost
         IN  [ok |-> TRUE,
              plugin |-> [name |-> "simple-obfs", mode |-> mode, obfsHost |-> host]]

(***************************************************************************)
(* plugin.NewPlugin: no plugin, simple-obfs / obfs-local, or an unknown    *)
(* name, which proceeds without a plugin.                                  *)
(***************************************************************************)
NewPlugin(cfg) ==
    IF cfg.Plugin = "" THEN [ok |-> TRUE, plugin |-> NoPlugin]
    ELSE IF cfg.Plugin \in {"simple-obfs", "obfs-local"}
         THEN NewSimpleObfs(cfg.PluginOpts)
         ELSE [ok |-> TRUE, plugin |-> NoPlugin]

(***************************************************************************)
(* shadowsocks.NewClient: the cipher is picked first, then the plugin is   *)
(* built; either failure fails the construction. id is the identity of the *)
(* allocated Client.                                                       *)
(***************************************************************************)
NewClient(cfg, id) ==
    IF cfg.Cipher \notin SupportedCiphers THEN Failed
    ELSE LET p == NewPlugin(cfg)
         IN  IF ~p.ok THEN Failed
             ELSE [ok |-> TRUE,
                   client |-> [id |-> id, serverAddr |-> cfg.Server,
                               cipher |-> cfg.Cipher, password |-> cfg.Password,
                               plugin |-> p.plugin]]

NoClient == [id |-> 0, serverAddr |-> "", cipher |-> "", password |-> "",
             plugin |-> NoPlugin]

(***************************************************************************)
(* SimpleObfs.WrapConn fails for a mode other than http and tls.           *)
(***************************************************************************)
WrapConnFails(cl) ==
    cl.plugin.name = "simple-obfs" /\ cl.plugin.mode \notin {"http", "tls"}

(***************************************************************************)
(* Client.DialContext, as its caller sees it. The exits, in code order:    *)
(*   parse_fail  socks.ParseAddr returned nil: error, nothing opened       *)
(*   tcp_fail    the TCP dial to the server failed: error                  *)
(*   wrap_panic  WrapConn failed: rc is nil by then and rc.Close() panics; *)
(*               the TCP socket that was opened is never closed            *)
(*   write_fail  writing the target address failed: rc closed, error       *)
(*   ok          the cipher-wrapped stream is returned                     *)
(***************************************************************************)
DialOutcomes(cl) ==
    {"parse_fail", "tcp_fail"} \cup
        (IF WrapConnFails(cl) THEN {"wrap_panic"} ELSE {"write_fail", "ok"})

DialErrors == {"parse_fail", "tcp_fail", "write_fail"}

\* What the caller of DialContext gets for outcome o.
DialResult(o) ==
    CASE o \in DialErrors -> "error"
      [] o = "wrap_panic" -> "panic"
      [] OTHER -> "ok"

\* The upstream TCP socket after DialContext ended with outcome o.
UpSockAfterDial(o) ==
    CASE o \in {"parse_fail", "tcp_fail"} -> "none"
      [] o = "write_fail" -> "closed"
      [] OTHER -> "open"

(***************************************************************************)
(* The Collector's counters.                                               *)
(***************************************************************************)
ZeroStats == [total |-> 0, active |-> 0, http |-> 0, socks5 |-> 0,
              sent |-> 0, received |-> 0]

RecordConnection(s, proxyType) ==
    [s EXCEPT !.total = @ + 1,
              !.active = @ + 1,
              !.http = IF proxyType = "http" THEN @ + 1 ELSE @,
              !.socks5 = IF proxyType = "socks5" THEN @ + 1 ELSE @]

RecordDisconnection(s) == [s EXCEPT !.active = @ - 1]

\* RecordBytesSent as it would be if it stored the size of the last write.
RecordBytesSent_Stores(s, n) == [s EXCEPT !.sent = n]

RecordBytesSent(s, n) == [s EXCEPT !.sent = @ + n]

RecordBytesReceived(s, n) == [s EXCEPT !.received = @ + n]

\* The proxyType a handler of kind k gives NewTrackedConn.
ProxyType(k) == IF k = "socks5" THEN "socks5" ELSE "http"

(***************************************************************************)
(* stats.NewTrackedConn, where the dial closures and handleConnect call it *)
(* (only with a collector): the counters after a successful dial.          *)
(***************************************************************************)
NewTrackedConn(s, k) ==
    IF collectorOn THEN RecordConnection(s, ProxyType(k)) ELSE s

(***************************************************************************)
(* TrackedConn.Close on a connection whose tracked wrapper is in state t:  *)
(* the first Close records the disconnection, later ones do not.           *)
(***************************************************************************)
TrackedConnClose(s, t) == IF t = "open" THEN RecordDisconnection(s) ELSE s

Closed(t) == IF t = "open" THEN "closed" ELSE t

(***************************************************************************)
(* Connections.                                                            *)
(*   state      free | peek | http | socks5 | dialing | relay | done       *)
(*   kind       none | connect | plain | socks5 | malformed                *)
(*   client     the Client the dial was made with                          *)
(*   curAtDial  id of Manager.ssClient when the dial began                 *)
(*   clientSock, upSock, tracked     none | open | closed                  *)
(*   out        what was written to the client, in order                   *)
(*   age        time since accept, while the target is not known           *)
(*   dial       none | error | panic | ok: how DialContext ended           *)
(***************************************************************************)
FreeConn == [state |-> "free", kind |-> "none", client |-> NoClient,
             curAtDial |-> 0, clientSock |-> "none", upSock |-> "none",
             tracked |-> "none", out |-> <<>>, age |-> 0, dial |-> "none"]

Handshaking == {"peek", "http", "socks5"}

Unified == config.Proxies = "unified"

Readers == 1..MaxReaders

Writers == (MaxReaders + 1)..(MaxReaders + MaxWriters)

NoLocals == [floor |-> 0, ret |-> NoClient, newConfig |-> InitialSS,
             newClient |-> NoClient, err |-> FALSE]

\* No caller of GetSSClient or ReloadConfig is under way.
ReloadIdle ==
    /\ mu = [writer |-> 0, readers |-> {}]
    /\ pc = [p \in Readers \cup Writers |-> "idle"]
    /\ loc = [p \in Readers \cup Writers |-> NoLocals]
    /\ published = <<1>>
    /\ returnedUpTo = 1

\* No byte-level connection is under way.
DetectIdle ==
    /\ toSend = <<>>
    /\ sent = <<>>
    /\ sock = <<>>
    /\ peerClosed = FALSE
    /\ rbuf = <<>>
    /\ seen = <<>>
    /\ route = "none"

\* No TrackedConn exists.
StatsIdle == tconns = [t \in 1..MaxTracked |-> "none"]

\* Manager.Shutdown has not been called.
ShutdownIdle == shutdown = "idle"

Listeners == {"unified", "http", "socks5"}

\* The start command has not run.
StartIdle ==
    /\ lcfg = {}
    /\ inUse = {}
    /\ startPc = "idle"
    /\ startRet = "none"
    /\ bound = [l \in Listeners |-> "none"]
    /\ exit = "none"

\* No cipher name is being normalized.
CipherIdle ==
    /\ cipherBase = <<>>
    /\ casing = "given"
    /\ outs = <<>>

\* No HTTP-obfs connection is being written to.
ObfsWriteIdle ==
    /\ hcHost = <<>>
    /\ hcFirstWrite = FALSE
    /\ hcWire = <<>>
    /\ hcWritten = <<>>
    /\ hcRet = [n |-> 0, err |-> FALSE]
    /\ hcFailed = FALSE

\* No HTTP-obfs connection is being read from.
ObfsReadIdle ==
    /\ hrStream = <<>>
    /\ hrArrived = 0
    /\ hrClosed = FALSE
    /\ hrOff = 0
    /\ hrFirstRead = FALSE
    /\ hrDelivered = <<>>
    /\ hrRet = [n |-> 0, err |-> FALSE]

\* No TLS-obfs connection is being read from.
TLSReadIdle ==
    /\ trPayload = <<>>
    /\ trStream = <<>>
    /\ trArrived = 0
    /\ trClosed = FALSE
    /\ trOff = 0
    /\ trDelivered = <<>>
    /\ trRet = [n |-> 0, err |-> FALSE]

\* No TLS-obfs connection is being written to.
TLSWriteIdle ==
    /\ twWire = <<>>
    /\ twCalls = <<>>
    /\ twRet = [n |-> 0, err |-> FALSE]
    /\ twFailed = FALSE

\* No request is being turned into a target.
TargetIdle ==
    /\ tqReq = <<>>
    /\ tqAddr = <<>>
    /\ tqTgt = <<>>
    /\ tqStep = "idle"
    /\ tqOut = "none"

\* No tunnel is being relayed.
RelayIdle ==
    /\ rlPeer = <<>>
    /\ rlSock = <<>>
    /\ rlRecv = <<>>
    /\ rlCopy = <<>>
    /\ errCh = <<>>
    /\ rlHandler = "idle"
    /\ rlGot = "none"
    /\ rlIdle = 0

\* No client connection is asking for an upstream connection.
PoolIdle ==
    /\ plConn = <<>>
    /\ plUp = <<>>

\* No SpeedTracker call has been made.
SpeedIdle ==
    /\ stSamples = <<>>
    /\ stNow = 0
    /\ stCalls = 0
    /\ stAdded = <<>>
    /\ stSpeed = <<>>

\* The management API has answered no /stop request.
StopIdle ==
    /\ apReq = <<>>
    /\ sigChan = 0
    /\ runPc = "waiting"
    /\ apListener = "open"

\* No TrackedConn has been made on the step-by-step collector and GetStats
\* has not been called.
CountersIdle ==
    /\ ctr = [total |-> 0, active |-> 0, http |-> 0, socks5 |-> 0]
    /\ tc = <<>>
    /\ closer = <<>>
    /\ snap = <<>>
    /\ gsPc = 0

\* No handleConfig request and no ReloadConfig beside it.
GetConfigIdle ==
    /\ gcConfig = InitialSS
    /\ gcMu = FALSE
    /\ gcWriter = <<>>
    /\ gcReloads = 0
    /\ gcReader = <<>>
    /\ gcPublished = {InitialSS}

\* Manager.Shutdown has not been invoked on the manager with its collector.
ShutdownTwiceIdle ==
    /\ sdOn = FALSE
    /\ sdPc = "idle"
    /\ sdCalls = 0
    /\ sdCtx = "live"
    /\ sdDone = "open"
    /\ sdTicker = "running"
    /\ sdSampler = "none"
    /\ sdTicks = 0
    /\ sdReporter = "none"
    /\ sdListener = "open"
    /\ sdPanic = FALSE

\* The start command is not building a configuration.
ConfigIdle ==
    /\ cfgIn = <<>>
    /\ runCfg = <<>>
    /\ cfgPc = "idle"
    /\ cfgErr = FALSE

\* No byte-level dial is under way.
DialIdle ==
    /\ dClient = NoClient
    /\ dAddr = [name |-> "", kind |-> "domain", host |-> <<>>, port |-> 0]
    /\ dStep = "idle"
    /\ tgt = <<>>
    /\ rc = <<>>
    /\ tcpSock = "none"
    /\ wire = <<>>
    /\ firstWrite = FALSE
    /\ saltSent = FALSE
    /\ dRet = "none"
    /\ appWrites = 0

Init ==
    /\ ssClient = NewClient(InitialSS, 1).client
    /\ oldClients = <<>>
    /\ config \in { [Shadowsocks |-> InitialSS, Proxies |-> p] :
                        p \in {"unified", "separate"} }
    /\ captured = ssClient
    /\ collectorOn \in BOOLEAN
    /\ nextId = 2
    /\ reloads = 0
    /\ lastReload = "none"
    /\ listener = "open"
    /\ ctxDone = FALSE
    /\ acceptLoop = "running"
    /\ crashed = FALSE
    /\ stats = ZeroStats
    /\ conn = [c \in ConnIds |-> FreeConn]
    /\ ReloadIdle
    /\ ShutdownTwiceIdle
    /\ GetConfigIdle
    /\ CountersIdle
    /\ StopIdle
    /\ SpeedIdle
    /\ PoolIdle
    /\ RelayIdle
    /\ TargetIdle
    /\ TLSWriteIdle
    /\ TLSReadIdle
    /\ ObfsReadIdle
    /\ ObfsWriteIdle
    /\ ConfigIdle
    /\ CipherIdle
    /\ StartIdle
    /\ ShutdownIdle
    /\ StatsIdle
    /\ DetectIdle
    /\ DialIdle

managerVars == <<ssClient, oldClients, config, captured, collectorOn, nextId,
                 reloads, lastReload>>

lifecycleVars == <<listener, ctxDone, acceptLoop>>

(***************************************************************************)
(* Manager.GetSSClient: the current client, read under the read lock.      *)
(***************************************************************************)
GetSSClient == ssClient

(***************************************************************************)
(* The client a listener's dial closure dials with: the unified proxy      *)
(* calls getClient() for every dial; NewHTTPServer and NewSOCKS5Server     *)
(* close over the *Client they were constructed with.                      *)
(***************************************************************************)
DialClient == IF Unified THEN GetSSClient ELSE captured

(***************************************************************************)
(* Accept: UnifiedProxy.Start's loop hands the connection to               *)
(* handleConnection, which blocks in reader.Peek(1); a separate listener   *)
(* hands it to its own protocol's server.                                  *)
(***************************************************************************)
Accept(c) ==
    /\ ~crashed
    /\ listener = "open" /\ acceptLoop = "running"
    /\ conn[c].state = "free"
    /\ \A d \in ConnIds : d < c => conn[d].state # "free"
    /\ \E s \in (IF Unified THEN {"peek"} ELSE {"http", "socks5"}) :
         conn' = [conn EXCEPT ![c] = [@ EXCEPT !.state = s, !.clientSock = "open"]]
    /\ UNCHANGED <<managerVars, lifecycleVars, sideVars, crashed, stats>>

(***************************************************************************)
(* handleConnection after Peek returned: an error closes the connection;   *)
(* first byte 0x05 goes to socks5Server.ServeConn, any other to handleHTTP.*)
(***************************************************************************)
handleConnection(c) ==
    /\ ~crashed
    /\ conn[c].state = "peek"
    /\ \/ conn' = [conn EXCEPT ![c] = [@ EXCEPT !.state = "done",
                                                 !.age = 0,
                                                 !.clientSock = "closed"]]
       \/ \E firstByte \in {5, 67, 71} :
            conn' = [conn EXCEPT ![c] = [@ EXCEPT
                        !.state = IF firstByte = 5 THEN "socks5" ELSE "http"]]
    /\ UNCHANGED <<managerVars, lifecycleVars, sideVars, crashed, stats>>

(***************************************************************************)
(* The handshake ends without a target: http.ReadRequest fails in          *)
(* handleHTTP (conn.Close, nothing written), or the SOCKS5 server rejects  *)
(* the greeting or request (ServeConn's deferred conn.Close).              *)
(***************************************************************************)
HandshakeFail(c) ==
    /\ ~crashed
    /\ conn[c].state \in {"http", "socks5"}
    /\ conn' = [conn EXCEPT ![c] = [@ EXCEPT !.state = "done",
                                              !.age = 0,
                                              !.clientSock = "closed"]]
    /\ UNCHANGED <<managerVars, lifecycleVars, sideVars, crashed, stats>>

(***************************************************************************)
(* The bytes of an HTTP client do not parse as a request. In unified mode  *)
(* handleHTTP logs the error of http.ReadRequest and closes the            *)
(* connection; in separate mode net/http's server answers 400 before it    *)
(* closes.                                                                 *)
(***************************************************************************)
RequestParseError(c) ==
    /\ ~crashed
    /\ conn[c].state = "http"
    /\ conn' = [conn EXCEPT ![c] = [@ EXCEPT !.state = "done",
                                              !.kind = "malformed",
                                              !.age = 0,
                                              !.out = IF Unified THEN @
                                                      ELSE Append(@, "400"),
                                              !.clientSock = "closed"]]
    /\ UNCHANGED <<managerVars, lifecycleVars, sideVars, crashed, stats>>

\* The dial as it would begin if the handler answered before dialing.
DialBegin_RepliesFirst(c) ==
    /\ ~crashed
    /\ conn[c].state \in {"http", "socks5"}
    /\ \E k \in (IF conn[c].state = "http" THEN {"connect", "plain"} ELSE {"socks5"}) :
         conn' = [conn EXCEPT ![c] = [@ EXCEPT !.state = "dialing",
                                                !.kind = k,
                                                !.age = 0,
                                                !.out = IF k = "connect"
                                                        THEN Append(@, "200") ELSE @,
                                                !.client = DialClient,
                                                !.curAtDial = ssClient.id]]
    /\ UNCHANGED <<managerVars, lifecycleVars, sideVars, crashed, stats>>

(***************************************************************************)
(* The request is read and the dial begins: handleHTTP dispatches CONNECT  *)
(* to handleConnect and any other method to goproxy; the SOCKS5 server     *)
(* calls its Dial closure. The client is fetched here.                     *)
(***************************************************************************)
DialBegin(c) ==
    /\ ~crashed
    /\ conn[c].state \in {"http", "socks5"}
    /\ \E k \in (IF conn[c].state = "http" THEN {"connect", "plain"} ELSE {"socks5"}) :
         conn' = [conn EXCEPT ![c] = [@ EXCEPT !.state = "dialing",
                                                !.kind = k,
                                                !.age = 0,
                                                !.client = DialClient,
                                                !.curAtDial = ssClient.id]]
    /\ UNCHANGED <<managerVars, lifecycleVars, sideVars, crashed, stats>>

\* What the handler writes to the client when the dial returned an error.
FailureReply(k) ==
    CASE k = "connect" -> "502"
      [] k = "plain" -> "500"
      [] OTHER -> "socks5_fail"

\* What the handler writes to the client when the dial succeeded.
SuccessReply(k) ==
    CASE k = "connect" -> <<"200">>
      [] k = "plain" -> <<>>
      [] OTHER -> <<"socks5_ok">>

(***************************************************************************)
(* A panic in the dial is recovered when the dial runs on a goroutine that *)
(* has a recover: handleConnection's (handleConnect, and ServeConn's Dial  *)
(* in unified mode) or net/http's handler goroutine (separate CONNECT).    *)
(* http.Transport dials on its own goroutine, and the separate SOCKS5      *)
(* server serves on a bare goroutine.                                      *)
(***************************************************************************)
PanicRecovered(k) ==
    \/ k = "connect"
    \/ k = "socks5" /\ Unified

\* The client socket when a handler of kind k returns: handleHTTP returns
\* from goproxy's ServeHTTP without closing the connection.
ClientSockAtReturn(k) ==
    IF k = "plain" /\ Unified THEN "open" ELSE "closed"

(***************************************************************************)
(* The dial ends. handleConnect: on error write 502 and return (deferred   *)
(* clientConn.Close); on success defer the close of the stream, wrap it    *)
(* in a TrackedConn, write 200 and start the two copies. The dial closures *)
(* wrap the stream in a TrackedConn before the server replies.            *)
(***************************************************************************)
DialEnd(c) ==
    /\ ~crashed
    /\ conn[c].state = "dialing"
    /\ \E o \in DialOutcomes(conn[c].client) :
         LET k == conn[c].kind IN
         \/ /\ o \in DialErrors
            /\ conn' = [conn EXCEPT ![c] = [@ EXCEPT
                           !.state = "done",
                           !.dial = DialResult(o),
                           !.upSock = UpSockAfterDial(o),
                           !.out = Append(@, FailureReply(k)),
                           !.clientSock = ClientSockAtReturn(k)]]
            /\ UNCHANGED <<stats, crashed>>
         \/ /\ o = "wrap_panic"
            /\ conn' = [conn EXCEPT ![c] = [@ EXCEPT
                           !.state = "done",
                           !.dial = DialResult(o),
                           !.upSock = UpSockAfterDial(o),
                           !.clientSock = IF PanicRecovered(k) THEN "closed" ELSE @]]
            /\ crashed' = ~PanicRecovered(k)
            /\ UNCHANGED stats
         \/ /\ o = "ok"
            /\ conn' = [conn EXCEPT ![c] = [@ EXCEPT
                           !.state = "relay",
                           !.dial = DialResult(o),
                           !.upSock = UpSockAfterDial(o),
                           !.tracked = IF collectorOn THEN "open" ELSE "none",
                           !.out = @ \o SuccessReply(k)]]
            /\ stats' = NewTrackedConn(stats, k)
            /\ UNCHANGED crashed
    /\ UNCHANGED <<managerVars, lifecycleVars, sideVars>>

Count(seq, x) == Cardinality({i \in 1..Len(seq) : seq[i] = x})

(***************************************************************************)
(* One io.Copy step of a relay. Upstream writes and reads go through the   *)
(* TrackedConn when there is one.                                          *)
(***************************************************************************)
RelayCopy(c) ==
    /\ ~crashed
    /\ conn[c].state = "relay"
    /\ Count(conn[c].out, "data") + Count(conn[c].out, "up") < MaxRelay
    /\ \/ /\ conn' = [conn EXCEPT ![c].out = Append(@, "up")]
          /\ stats' = IF conn[c].tracked = "open"
                      THEN RecordBytesSent(stats, 1) ELSE stats
       \/ /\ conn' = [conn EXCEPT ![c].out = Append(@, "data")]
          /\ stats' = IF conn[c].tracked = "open"
                      THEN RecordBytesReceived(stats, 1) ELSE stats
    /\ UNCHANGED <<managerVars, lifecycleVars, sideVars, crashed>>

(***************************************************************************)
(* The close the handler of kind k makes on its upstream connection when   *)
(* the relay ends. handleConnect's `defer targetConn.Close()` was          *)
(* evaluated before targetConn was replaced by the TrackedConn, so it      *)
(* closes the inner stream: the TrackedConn's Close never runs. The SOCKS5 *)
(* server and goproxy's CONNECT close the connection their dial returned.  *)
(***************************************************************************)
ClosesTracked(k) ==
    \/ k = "socks5"
    \/ k = "connect" /\ ~Unified

(***************************************************************************)
(* A relay ends: a copy direction finished and the handler returns. For a  *)
(* plain request the upstream connection stays with http.Transport, which  *)
(* closes it now or keeps it idle.                                         *)
(***************************************************************************)
RelayEnd(c) ==
    /\ ~crashed
    /\ conn[c].state = "relay"
    /\ LET k == conn[c].kind IN
       \/ /\ k # "plain"
          /\ conn' = [conn EXCEPT ![c] = [@ EXCEPT
                         !.state = "done",
                         !.upSock = "closed",
                         !.tracked = IF ClosesTracked(k) THEN Closed(@) ELSE @,
                         !.clientSock = ClientSockAtReturn(k)]]
          /\ stats' = IF ClosesTracked(k)
                      THEN TrackedConnClose(stats, conn[c].tracked) ELSE stats
       \/ /\ k = "plain"
          /\ conn' = [conn EXCEPT ![c] = [@ EXCEPT
                         !.state = "done",
                         !.clientSock = ClientSockAtReturn(k)]]
          /\ UNCHANGED stats
    /\ UNCHANGED <<managerVars, lifecycleVars, sideVars, crashed>>

(***************************************************************************)
(* http.Transport closes a connection it kept: TrackedConn.Close.          *)
(***************************************************************************)
TransportClose(c) ==
    /\ ~crashed
    /\ conn[c].state = "done" /\ conn[c].kind = "plain"
    /\ conn[c].upSock = "open" /\ conn[c].dial = "ok"
    /\ conn' = [conn EXCEPT ![c] = [@ EXCEPT !.upSock = "closed",
                                              !.tracked = Closed(@)]]
    /\ stats' = TrackedConnClose(stats, conn[c].tracked)
    /\ UNCHANGED <<managerVars, lifecycleVars, sideVars, crashed>>

(***************************************************************************)
(* Time passes for the connections whose target is not yet known. No read  *)
(* of the handshake carries a deadline.                                    *)
(***************************************************************************)
Tick ==
    /\ ~crashed
    /\ \E c \in ConnIds :
         conn[c].state \in Handshaking /\ conn[c].age <= HandshakeTimeout
    /\ conn' = [c \in ConnIds |->
                  IF conn[c].state \in Handshaking /\ conn[c].age <= HandshakeTimeout
                  THEN [conn[c] EXCEPT !.age = @ + 1] ELSE conn[c]]
    /\ UNCHANGED <<managerVars, lifecycleVars, sideVars, crashed, stats>>

\* ReloadConfig as it would be if it shut the retired client's connections.
ReloadWith_ClosesInflight(newConfig) ==
    /\ ~crashed
    /\ reloads < MaxReloads
    /\ LET r == NewClient(newConfig, nextId) IN
       IF ~r.ok
       THEN /\ lastReload' = "error"
            /\ UNCHANGED <<ssClient, oldClients, config, nextId, conn>>
       ELSE /\ lastReload' = "ok"
            /\ oldClients' = Append(oldClients, ssClient)
            /\ ssClient' = r.client
            /\ config' = [config EXCEPT !.Shadowsocks = newConfig]
            /\ nextId' = nextId + 1
            /\ conn' = [c \in ConnIds |->
                          IF conn[c].state = "relay"
                          THEN [conn[c] EXCEPT !.state = "done",
                                               !.upSock = "closed",
                                               !.clientSock = "closed"]
                          ELSE conn[c]]
    /\ reloads' = reloads + 1
    /\ UNCHANGED <<captured, collectorOn, lifecycleVars, sideVars, crashed, stats>>

\* ReloadConfig as it would be if it stored a fresh Config around newConfig.
ReloadWith_ReplacesConfig(newConfig) ==
    /\ ~crashed
    /\ reloads < MaxReloads
    /\ LET r == NewClient(newConfig, nextId) IN
       IF ~r.ok
       THEN /\ lastReload' = "error"
            /\ UNCHANGED <<ssClient, oldClients, config, nextId>>
       ELSE /\ lastReload' = "ok"
            /\ oldClients' = Append(oldClients, ssClient)
            /\ ssClient' = r.client
            /\ config' = [Shadowsocks |-> newConfig, Proxies |-> "unified"]
            /\ nextId' = nextId + 1
    /\ reloads' = reloads + 1
    /\ UNCHANGED <<captured, collectorOn, lifecycleVars, sideVars, crashed, stats, conn>>

(***************************************************************************)
(* Manager.ReloadConfig(newConfig): build the new client (return the error *)
(* if that fails); under the write lock retain the old client, publish the *)
(* new one and store newConfig in config.Shadowsocks.                      *)
(***************************************************************************)
ReloadWith(newConfig) ==
    /\ ~crashed
    /\ reloads < MaxReloads
    /\ LET r == NewClient(newConfig, nextId) IN
       IF ~r.ok
       THEN /\ lastReload' = "error"
            /\ UNCHANGED <<ssClient, oldClients, config, nextId>>
       ELSE /\ lastReload' = "ok"
            /\ oldClients' = Append(oldClients, ssClient)
            /\ ssClient' = r.client
            /\ config' = [config EXCEPT !.Shadowsocks = newConfig]
            /\ nextId' = nextId + 1
    /\ reloads' = reloads + 1
    /\ UNCHANGED <<captured, collectorOn, lifecycleVars, sideVars, crashed, stats, conn>>

\* A reload request arrives with any of the parameter sets.
ReloadConfig == \E newConfig \in ReloadInputs : ReloadWith(newConfig)

Next ==
    \/ \E c \in ConnIds : Accept(c)
    \/ \E c \in ConnIds : handleConnection(c)
    \/ \E c \in ConnIds : HandshakeFail(c)
    \/ \E c \in ConnIds : RequestParseError(c)
    \/ \E c \in ConnIds : DialBegin(c)
    \/ \E c \in ConnIds : DialEnd(c)
    \/ \E c \in ConnIds : RelayCopy(c)
    \/ \E c \in ConnIds : RelayEnd(c)
    \/ \E c \in ConnIds : TransportClose(c)
    \/ Tick
    \/ ReloadConfig

Spec == Init /\ [][Next]_vars

(***************************************************************************)
(* SpecReload: GetSSClient and ReloadConfig, one statement at a time.      *)
(* Readers call GetSSClient again and again; each writer makes one         *)
(* ReloadConfig call. The manager is as NewManager left it.                *)
(***************************************************************************)
\* The manager as NewManager leaves it in unified mode, no connection open.
ManagerAtRest ==
    /\ ssClient = NewClient(InitialSS, 1).client
    /\ oldClients = <<>>
    /\ config = [Shadowsocks |-> InitialSS, Proxies |-> "unified"]
    /\ captured = ssClient
    /\ collectorOn = FALSE
    /\ nextId = 2
    /\ reloads = 0
    /\ lastReload = "none"
    /\ listener = "open"
    /\ ctxDone = FALSE
    /\ acceptLoop = "running"
    /\ crashed = FALSE
    /\ stats = ZeroStats
    /\ conn = [c \in ConnIds |-> FreeConn]

InitReload ==
    /\ ManagerAtRest
    /\ ReloadIdle
    /\ ShutdownTwiceIdle
    /\ GetConfigIdle
    /\ CountersIdle
    /\ StopIdle
    /\ SpeedIdle
    /\ PoolIdle
    /\ RelayIdle
    /\ TargetIdle
    /\ TLSWriteIdle
    /\ TLSReadIdle
    /\ ObfsReadIdle
    /\ ObfsWriteIdle
    /\ ConfigIdle
    /\ CipherIdle
    /\ StartIdle
    /\ ShutdownIdle
    /\ StatsIdle
    /\ DetectIdle
    /\ DialIdle

reloadFrame == <<captured, collectorOn, reloads, lastReload, listener, ctxDone,
                 acceptLoop, crashed, stats, conn, detectVars, dialVars, statsVars, shutdownVars, startVars, cipherVars, configVars, obfsWriteVars, obfsReadVars, tlsReadVars, tlsWriteVars, targetVars, relayVars, poolVars, speedVars, stopVars, counterVars, getConfigVars, stopTwiceVars>>

\* A caller enters GetSSClient. floor notes the publications that belong to
\* reloads which have already returned.
GetCall(p) ==
    /\ pc[p] \in {"idle", "returned"}
    /\ pc' = [pc EXCEPT ![p] = "rlock"]
    /\ loc' = [loc EXCEPT ![p] = [@ EXCEPT !.floor = returnedUpTo, !.ret = NoClient]]
    /\ UNCHANGED <<ssClient, oldClients, config, nextId, mu, published,
                   returnedUpTo, reloadFrame>>

\* m.ssClientMu.RLock() as it would be if it did not wait for a writer
\* holding the lock.
GetRLock_NoWait(p) ==
    /\ pc[p] = "rlock"
    /\ mu' = [mu EXCEPT !.readers = @ \cup {p}]
    /\ pc' = [pc EXCEPT ![p] = "read"]
    /\ UNCHANGED <<ssClient, oldClients, config, nextId, loc, published,
                   returnedUpTo, reloadFrame>>

\* m.ssClientMu.RLock(): waits while a writer holds the lock.
GetRLock(p) ==
    /\ pc[p] = "rlock"
    /\ mu.writer = 0
    /\ mu' = [mu EXCEPT !.readers = @ \cup {p}]
    /\ pc' = [pc EXCEPT ![p] = "read"]
    /\ UNCHANGED <<ssClient, oldClients, config, nextId, loc, published,
                   returnedUpTo, reloadFrame>>

\* What a read of m.ssClient can yield: the field's value; a read that
\* races with a writer inside its critical section is a data race, and can
\* yield the old pointer, the new one or neither.
ReadSSClient ==
    IF mu.writer = 0 THEN {GetSSClient}
    ELSE {GetSSClient, loc[mu.writer].newClient, NoClient}

\* return m.ssClient
GetRead(p) ==
    /\ pc[p] = "read"
    /\ \E v \in ReadSSClient : loc' = [loc EXCEPT ![p].ret = v]
    /\ pc' = [pc EXCEPT ![p] = "runlock"]
    /\ UNCHANGED <<ssClient, oldClients, config, nextId, mu, published,
                   returnedUpTo, reloadFrame>>

\* The deferred m.ssClientMu.RUnlock(); GetSSClient returns.
GetRUnlock(p) ==
    /\ pc[p] = "runlock"
    /\ mu' = [mu EXCEPT !.readers = @ \ {p}]
    /\ pc' = [pc EXCEPT ![p] = "returned"]
    /\ UNCHANGED <<ssClient, oldClients, config, nextId, loc, published,
                   returnedUpTo, reloadFrame>>

\* ReloadConfig is called: NewClient builds the client, or the call returns
\* the error.
ReloadCall(p) ==
    /\ pc[p] = "idle"
    /\ \E newConfig \in ReloadInputs :
         LET r == NewClient(newConfig, nextId) IN
         IF ~r.ok
         THEN /\ pc' = [pc EXCEPT ![p] = "returned"]
              /\ loc' = [loc EXCEPT ![p] = [@ EXCEPT !.newConfig = newConfig,
                                                        !.err = TRUE]]
              /\ UNCHANGED nextId
         ELSE /\ pc' = [pc EXCEPT ![p] = "lock"]
              /\ loc' = [loc EXCEPT ![p] = [@ EXCEPT !.newConfig = newConfig,
                                                        !.newClient = r.client]]
              /\ nextId' = nextId + 1
    /\ UNCHANGED <<ssClient, oldClients, config, mu, published, returnedUpTo,
                   reloadFrame>>

\* m.ssClientMu.Lock(): waits for the readers and for another writer.
ReloadLock(p) ==
    /\ pc[p] = "lock"
    /\ mu.writer = 0 /\ mu.readers = {}
    /\ mu' = [mu EXCEPT !.writer = p]
    /\ pc' = [pc EXCEPT ![p] = "retain"]
    /\ UNCHANGED <<ssClient, oldClients, config, nextId, loc, published,
                   returnedUpTo, reloadFrame>>

\* if m.ssClient != nil { m.oldClients = append(m.oldClients, m.ssClient) }
ReloadRetain(p) ==
    /\ pc[p] = "retain"
    /\ oldClients' = IF ssClient # NoClient
                     THEN Append(oldClients, ssClient) ELSE oldClients
    /\ pc' = [pc EXCEPT ![p] = "swap"]
    /\ UNCHANGED <<ssClient, config, nextId, mu, loc, published, returnedUpTo,
                   reloadFrame>>

\* m.ssClient = newClient
ReloadSwap(p) ==
    /\ pc[p] = "swap"
    /\ ssClient' = loc[p].newClient
    /\ published' = Append(published, loc[p].newClient.id)
    /\ pc' = [pc EXCEPT ![p] = "store"]
    /\ UNCHANGED <<oldClients, config, nextId, mu, loc, returnedUpTo, reloadFrame>>

\* m.config.Shadowsocks = newConfig
ReloadStore(p) ==
    /\ pc[p] = "store"
    /\ config' = [config EXCEPT !.Shadowsocks = loc[p].newConfig]
    /\ pc' = [pc EXCEPT ![p] = "unlock"]
    /\ UNCHANGED <<ssClient, oldClients, nextId, mu, loc, published,
                   returnedUpTo, reloadFrame>>

\* The deferred m.ssClientMu.Unlock(); ReloadConfig returns nil.
ReloadReturn(p) ==
    /\ pc[p] = "unlock"
    /\ mu' = [mu EXCEPT !.writer = 0]
    /\ pc' = [pc EXCEPT ![p] = "returned"]
    /\ returnedUpTo' = Len(published)
    /\ UNCHANGED <<ssClient, oldClients, config, nextId, loc, published,
                   reloadFrame>>

NextReload ==
    \/ \E p \in Readers : GetCall(p)
    \/ \E p \in Readers : GetRLock(p)
    \/ \E p \in Readers : GetRead(p)
    \/ \E p \in Readers : GetRUnlock(p)
    \/ \E p \in Writers : ReloadCall(p)
    \/ \E p \in Writers : ReloadLock(p)
    \/ \E p \in Writers : ReloadRetain(p)
    \/ \E p \in Writers : ReloadSwap(p)
    \/ \E p \in Writers : ReloadStore(p)
    \/ \E p \in Writers : ReloadReturn(p)

SpecReload == InitReload /\ [][NextReload]_vars

(***************************************************************************)
(* Claims checked under SpecReload.                                        *)
(***************************************************************************)
PubIndex(id) ==
    IF \E i \in 1..Len(published) : published[i] = id
    THEN CHOOSE i \in 1..Len(published) : published[i] = id
    ELSE 0

FullyConstructed(cl) ==
    /\ cl.id > 0
    /\ cl.serverAddr # ""
    /\ cl.cipher \in SupportedCiphers
    /\ cl.plugin.name \in {"none", "simple-obfs"}

\* C5: every GetSSClient that has returned gave a fully constructed client
\* that was published (the initial one or one a reload published), never
\* nil, and never one older than the newest publication of a reload that
\* had returned when the call began.
C5_GetSSClientConsistent ==
    \A p \in Readers :
        pc[p] = "returned" =>
            /\ loc[p].ret # NoClient
            /\ FullyConstructed(loc[p].ret)
            /\ PubIndex(loc[p].ret.id) >= 1
            /\ PubIndex(loc[p].ret.id) >= loc[p].floor

\* C5 witness: a GetSSClient that began after one reload had returned, and
\* ran while another reload was under way, returned the client the later
\* reload published.
C5_Witness ==
    \E p \in Readers :
        /\ pc[p] = "returned"
        /\ loc[p].floor = 2
        /\ PubIndex(loc[p].ret.id) = 3
        /\ Len(oldClients) = 2

\* A connection in flight dials or relays through the client cl.
InUse(cl) == \E c \in ConnIds : conn[c].state # "free" /\ conn[c].client = cl

\* C31: once no ReloadConfig call is under way, every client still in
\* oldClients is in use by an in-flight connection: a retired client that no
\* connection uses has been dropped from the list.
C31_RetiredDropped ==
    (\A p \in Writers : pc[p] \in {"idle", "returned"}) =>
        \A i \in DOMAIN oldClients : InUse(oldClients[i])

(***************************************************************************)
(* SpecDetect: handleConnection's protocol detection and the reads the     *)
(* handlers make through the same bufio.Reader, for one connection. The    *)
(* client sends any byte string of at most MaxStream bytes, in any         *)
(* segmentation, and may close at any point. BufSize is the reader's       *)
(* buffer size.                                                            *)
(***************************************************************************)
StreamBytes == {5, 71, 0}

Streams == UNION {[1..n -> StreamBytes] : n \in 0..MaxStream}

Min(a, b) == IF a < b THEN a ELSE b

Take(q, n) == SubSeq(q, 1, Min(n, Len(q)))

Drop(q, n) == SubSeq(q, Min(n, Len(q)) + 1, Len(q))

InitDetect ==
    /\ ManagerAtRest
    /\ ReloadIdle
    /\ ShutdownTwiceIdle
    /\ GetConfigIdle
    /\ CountersIdle
    /\ StopIdle
    /\ SpeedIdle
    /\ PoolIdle
    /\ RelayIdle
    /\ TargetIdle
    /\ TLSWriteIdle
    /\ TLSReadIdle
    /\ ObfsReadIdle
    /\ ObfsWriteIdle
    /\ ConfigIdle
    /\ CipherIdle
    /\ StartIdle
    /\ ShutdownIdle
    /\ StatsIdle
    /\ DialIdle
    /\ toSend \in Streams
    /\ sent = <<>>
    /\ sock = <<>>
    /\ peerClosed = FALSE
    /\ rbuf = <<>>
    /\ seen = <<>>
    /\ route = "none"

detectFrame == <<mainVars, reloadVars, dialVars, statsVars, shutdownVars, startVars, cipherVars, configVars, obfsWriteVars, obfsReadVars, tlsReadVars, tlsWriteVars, targetVars, relayVars, poolVars, speedVars, stopVars, counterVars, getConfigVars, stopTwiceVars>>

\* The client sends its next k bytes.
ClientSend(k) ==
    /\ ~peerClosed
    /\ k <= Len(toSend)
    /\ sock' = sock \o Take(toSend, k)
    /\ sent' = sent \o Take(toSend, k)
    /\ toSend' = Drop(toSend, k)
    /\ UNCHANGED <<peerClosed, rbuf, seen, route, detectFrame>>

\* The client closes its side.
ClientClose ==
    /\ ~peerClosed
    /\ peerClosed' = TRUE
    /\ UNCHANGED <<toSend, sent, sock, rbuf, seen, route, detectFrame>>

\* reader.Peek(1) as it would be if the byte were taken out of the reader
\* (ReadByte): the handler is dispatched with the first byte gone.
Peek_Consumes ==
    /\ route = "none"
    /\ sock # <<>>
    /\ rbuf' = Tail(Take(sock, BufSize))
    /\ sock' = Drop(sock, BufSize)
    /\ route' = IF sock[1] = 5 THEN "socks5" ELSE "http"
    /\ UNCHANGED <<toSend, sent, peerClosed, seen, detectFrame>>

(***************************************************************************)
(* handleConnection: reader.Peek(1) fills the reader's buffer with what    *)
(* the socket holds (at most BufSize bytes) and returns the first byte     *)
(* without consuming it; 0x05 dispatches to the SOCKS5 server, any other   *)
(* byte to handleHTTP, both reading through the reader.                    *)
(***************************************************************************)
Peek ==
    /\ route = "none"
    /\ sock # <<>>
    /\ rbuf' = Take(sock, BufSize)
    /\ sock' = Drop(sock, BufSize)
    /\ route' = IF sock[1] = 5 THEN "socks5" ELSE "http"
    /\ UNCHANGED <<toSend, sent, peerClosed, seen, detectFrame>>

\* handleConnection: Peek fails on a connection closed before any byte:
\* conn.Close() and return.
PeekFail ==
    /\ route = "none"
    /\ sock = <<>> /\ peerClosed
    /\ route' = "closed"
    /\ UNCHANGED <<toSend, sent, sock, peerClosed, rbuf, seen, detectFrame>>

(***************************************************************************)
(* bufferConn.Read(b) with len(b) = n, which is reader.Read(b): buffered   *)
(* bytes are served first; with an empty buffer a read of at least BufSize *)
(* bytes goes straight to the socket, a smaller one refills the buffer     *)
(* from the socket once and is served from it.                             *)
(***************************************************************************)
bufferConnRead(n) ==
    /\ route \in {"socks5", "http"}
    /\ \/ /\ rbuf # <<>>
          /\ seen' = seen \o Take(rbuf, n)
          /\ rbuf' = Drop(rbuf, n)
          /\ UNCHANGED sock
       \/ /\ rbuf = <<>> /\ sock # <<>>
          /\ n >= BufSize
          /\ seen' = seen \o Take(sock, n)
          /\ sock' = Drop(sock, n)
          /\ UNCHANGED rbuf
       \/ /\ rbuf = <<>> /\ sock # <<>>
          /\ n < BufSize
          /\ seen' = seen \o Take(Take(sock, BufSize), n)
          /\ rbuf' = Drop(Take(sock, BufSize), n)
          /\ sock' = Drop(sock, BufSize)
    /\ UNCHANGED <<toSend, sent, peerClosed, route, detectFrame>>

NextDetect ==
    \/ \E k \in 1..MaxStream : ClientSend(k)
    \/ ClientClose
    \/ Peek
    \/ PeekFail
    \/ \E n \in 1..MaxRead : bufferConnRead(n)

SpecDetect == InitDetect /\ [][NextDetect]_vars

(***************************************************************************)
(* Claims checked under SpecDetect.                                        *)
(***************************************************************************)
\* C7: a connection is served by the SOCKS5 handler exactly when its first
\* byte is 0x05 and by the HTTP handler for any other first byte; nothing
\* is handed to a handler before the first byte is there; and what the
\* handler has read, followed by what is buffered and what is still in the
\* socket, is exactly what the client sent: no byte lost, repeated or
\* reordered, the first byte included.
C7_DetectAndReplay ==
    /\ route \in {"socks5", "http"} =>
          /\ Len(sent) >= 1
          /\ (route = "socks5") <=> (sent[1] = 5)
    /\ route \in {"none", "closed"} => seen = <<>>
    /\ seen \o rbuf \o sock = sent

\* C7 witness: an HTTP handler has read the whole stream of a client whose
\* first byte was not 0x05, first byte first.
C7_Witness ==
    /\ route = "http"
    /\ Len(seen) = MaxStream
    /\ seen = sent
    /\ seen[1] = 71
    /\ seen[2] = 5

(***************************************************************************)
(* SpecDial: one call of Client.DialContext, followed by the caller's      *)
(* writes on the stream it was handed. The socket records every write made *)
(* to it, with the wrapping each layer of rc added.                        *)
(***************************************************************************)
ExampleCom == <<101, 120, 97, 109, 112, 108, 101, 46, 99, 111, 109>>

Loopback6 == [i \in 1..16 |-> IF i = 16 THEN 1 ELSE 0]

\* The addresses asked for: host kind and octets as net.ParseIP classifies
\* them; port -1 stands for an address without a port.
Targets ==
    { [name |-> "example.com:80", kind |-> "domain", host |-> ExampleCom, port |-> 80],
      [name |-> "1.2.3.4:443", kind |-> "ip4", host |-> <<1, 2, 3, 4>>, port |-> 443],
      [name |-> "[::1]:8080", kind |-> "ip6", host |-> Loopback6, port |-> 8080],
      [name |-> "example.com", kind |-> "domain", host |-> ExampleCom, port |-> -1],
      [name |-> "example.com:70000", kind |-> "domain", host |-> ExampleCom, port |-> 70000],
      [name |-> "<256 x a>:80", kind |-> "domain", host |-> [i \in 1..256 |-> 97], port |-> 80] }

(***************************************************************************)
(* socks.ParseAddr: nil without a port, for a host name longer than 255    *)
(* octets, or for a port that is not a 16-bit number; else the address     *)
(* type, the address (length-prefixed for a name) and the port, high octet *)
(* first.                                                                  *)
(***************************************************************************)
ParseAddr(a) ==
    IF a.port = -1 THEN <<>>
    ELSE IF a.kind = "domain" /\ Len(a.host) > 255 THEN <<>>
    ELSE IF a.port \notin 0..65535 THEN <<>>
    ELSE LET head == CASE a.kind = "ip4" -> <<1>> \o a.host
                       [] a.kind = "ip6" -> <<4>> \o a.host
                       [] OTHER -> <<3, Len(a.host)>> \o a.host
         IN  head \o <<a.port \div 256, a.port % 256>>

\* The clients DialContext is exercised with: no plugin, and simple-obfs in
\* each mode a configuration can name.
DialClients ==
    { NewClient(cfg, 1).client :
        cfg \in { InitialSS,
                  SSConfig("s0:8388", "AEAD_CHACHA20_POLY1305", "simple-obfs", Opts("http")),
                  SSConfig("s0:8388", "AEAD_CHACHA20_POLY1305", "simple-obfs", Opts("tls")),
                  SSConfig("s0:8388", "AEAD_CHACHA20_POLY1305", "simple-obfs", Opts("quic")) } }

\* The payloads a caller writes.
AppPayloads == {<<22, 3, 1>>, <<71, 69, 84>>}

InitDial ==
    /\ ManagerAtRest
    /\ ReloadIdle
    /\ ShutdownTwiceIdle
    /\ GetConfigIdle
    /\ CountersIdle
    /\ StopIdle
    /\ SpeedIdle
    /\ PoolIdle
    /\ RelayIdle
    /\ TargetIdle
    /\ TLSWriteIdle
    /\ TLSReadIdle
    /\ ObfsReadIdle
    /\ ObfsWriteIdle
    /\ ConfigIdle
    /\ CipherIdle
    /\ StartIdle
    /\ ShutdownIdle
    /\ StatsIdle
    /\ DetectIdle
    /\ dClient \in DialClients
    /\ dAddr \in Targets
    /\ dStep = "parse"
    /\ tgt = <<>>
    /\ rc = <<>>
    /\ tcpSock = "none"
    /\ wire = <<>>
    /\ firstWrite = FALSE
    /\ saltSent = FALSE
    /\ dRet = "none"
    /\ appWrites = 0

dialFrame == <<mainVars, reloadVars, detectVars, dClient, dAddr, statsVars, shutdownVars, startVars, cipherVars, configVars, obfsWriteVars, obfsReadVars, tlsReadVars, tlsWriteVars, targetVars, relayVars, poolVars, speedVars, stopVars, counterVars, getConfigVars, stopTwiceVars>>

(***************************************************************************)
(* obfsHTTPConn.Write and obfsTLSConn.Write: how the plugin layer of rc    *)
(* wraps one write on its way to the socket. http prepends the GET request *)
(* to the first write only; tls puts every write in a record.              *)
(***************************************************************************)
ObfsWrite(item, first) ==
    IF "obfs-http" \in {rc[i] : i \in 1..Len(rc)}
    THEN [item EXCEPT !.wrap = IF first THEN "http_get" ELSE "none"]
    ELSE IF "obfs-tls" \in {rc[i] : i \in 1..Len(rc)}
    THEN [item EXCEPT !.wrap = "tls_record"]
    ELSE item

(***************************************************************************)
(* Write(b) on the cipher stream: the first write initialises the writer   *)
(* and sends the salt in a write of its own, then b goes out sealed in a   *)
(* frame; each of these is one write on the layer below. The result is     *)
(* what reaches the socket.                                                *)
(***************************************************************************)
StreamConnWrite(b) ==
    LET salt == [t |-> "salt", payload |-> <<>>, wrap |-> "none"]
        frame == [t |-> "frame", payload |-> b, wrap |-> "none"]
    IN  IF saltSent
        THEN <<ObfsWrite(frame, firstWrite)>>
        ELSE <<ObfsWrite(salt, firstWrite), ObfsWrite(frame, FALSE)>>

\* DialContext: tgt := socks.ParseAddr(addr); nil is an error.
DialParseAddr ==
    /\ dStep = "parse"
    /\ tgt' = ParseAddr(dAddr)
    /\ IF ParseAddr(dAddr) = <<>>
       THEN dStep' = "done" /\ dRet' = "error"
       ELSE dStep' = "dial" /\ UNCHANGED dRet
    /\ UNCHANGED <<rc, tcpSock, wire, firstWrite, saltSent, appWrites, dialFrame>>

\* DialContext: the TCP dial to the server; a failure is an error.
DialServer ==
    /\ dStep = "dial"
    /\ \/ /\ rc' = <<"tcp">>
          /\ tcpSock' = "open"
          /\ dStep' = "wrap"
          /\ UNCHANGED dRet
       \/ /\ dStep' = "done"
          /\ dRet' = "error"
          /\ UNCHANGED <<rc, tcpSock>>
    /\ UNCHANGED <<tgt, wire, firstWrite, saltSent, appWrites, dialFrame>>

(***************************************************************************)
(* DialContext: rc, err = c.plugin.WrapConn(rc) when a plugin is set. For  *)
(* a mode WrapConn does not know, rc is nil when rc.Close() is called: the *)
(* call panics and the socket stays open.                                  *)
(***************************************************************************)
DialWrapConn ==
    /\ dStep = "wrap"
    /\ IF dClient.plugin.name = "none"
       THEN /\ dStep' = "cipher"
            /\ UNCHANGED <<rc, firstWrite, dRet>>
       ELSE IF WrapConnFails(dClient)
       THEN /\ rc' = <<>>
            /\ dStep' = "done"
            /\ dRet' = "panic"
            /\ UNCHANGED firstWrite
       ELSE /\ rc' = Append(rc, "obfs-" \o dClient.plugin.mode)
            /\ firstWrite' = (dClient.plugin.mode = "http")
            /\ dStep' = "cipher"
            /\ UNCHANGED dRet
    /\ UNCHANGED <<tgt, tcpSock, wire, saltSent, appWrites, dialFrame>>

\* DialContext: rc = c.cipher.StreamConn(rc).
DialStreamConn ==
    /\ dStep = "cipher"
    /\ rc' = Append(rc, "cipher")
    /\ dStep' = "write"
    /\ UNCHANGED <<tgt, tcpSock, wire, firstWrite, saltSent, dRet, appWrites, dialFrame>>

\* rc.Write(tgt) as it would be if DialContext returned the stream without
\* sending the target address.
DialWriteTarget_Skipped ==
    /\ dStep = "write"
    /\ dStep' = "return"
    /\ UNCHANGED <<tgt, rc, tcpSock, wire, firstWrite, saltSent, dRet, appWrites, dialFrame>>

\* DialContext: rc.Write(tgt); on an error rc is closed and the error
\* returned.
DialWriteTarget ==
    /\ dStep = "write"
    /\ \/ /\ wire' = wire \o StreamConnWrite(tgt)
          /\ saltSent' = TRUE
          /\ firstWrite' = FALSE
          /\ dStep' = "return"
          /\ UNCHANGED <<tcpSock, dRet>>
       \/ /\ tcpSock' = "closed"
          /\ dStep' = "done"
          /\ dRet' = "error"
          /\ UNCHANGED <<wire, saltSent, firstWrite>>
    /\ UNCHANGED <<tgt, rc, appWrites, dialFrame>>

\* DialContext: return rc, nil.
DialReturn ==
    /\ dStep = "return"
    /\ dStep' = "done"
    /\ dRet' = "ok"
    /\ UNCHANGED <<tgt, rc, tcpSock, wire, firstWrite, saltSent, appWrites, dialFrame>>

\* The caller, holding the stream DialContext returned, writes b on it.
CallerWrite(b) ==
    /\ dRet = "ok"
    /\ appWrites < MaxAppWrites
    /\ wire' = wire \o StreamConnWrite(b)
    /\ saltSent' = TRUE
    /\ firstWrite' = FALSE
    /\ appWrites' = appWrites + 1
    /\ UNCHANGED <<tgt, rc, tcpSock, dStep, dRet, dialFrame>>

NextDial ==
    \/ DialParseAddr
    \/ DialServer
    \/ DialWrapConn
    \/ DialStreamConn
    \/ DialWriteTarget
    \/ DialReturn
    \/ \E b \in AppPayloads : CallerWrite(b)

SpecDial == InitDial /\ [][NextDial]_vars

(***************************************************************************)
(* Claims checked under SpecDial.                                          *)
(***************************************************************************)
\* The SOCKS5 address encoding (ATYP | ADDR | PORT) of the targets, octet by
\* octet.
Socks5Encoding(name) ==
    CASE name = "example.com:80" ->
           <<3, 11, 101, 120, 97, 109, 112, 108, 101, 46, 99, 111, 109, 0, 80>>
      [] name = "1.2.3.4:443" -> <<1, 1, 2, 3, 4, 1, 187>>
      [] name = "[::1]:8080" ->
           <<4, 0, 0, 0, 0, 0, 0, 0, 0, 0, 0, 0, 0, 0, 0, 0, 1, 31, 144>>
      [] OTHER -> <<>>

\* The payloads sealed in the frames on the socket, in order: what the
\* server reads from the cipher stream.
SealedPayloads ==
    LET frames == SelectSeq(wire, LAMBDA w : w.t = "frame")
    IN  [i \in 1..Len(frames) |-> frames[i].payload]

\* C10: the first payload written on the cipher stream is exactly the SOCKS5
\* encoding of the requested target, alone in its frame; it is written
\* through the plugin layer, if one is configured, and the cipher layer (the
\* salt opens the stream, inside the plugin's wrapping); and it is on the
\* socket before the caller holds the stream, so every payload of the
\* caller comes after it.
C10_TargetAddressFirst ==
    /\ SealedPayloads # <<>> =>
          /\ SealedPayloads[1] = Socks5Encoding(dAddr.name)
          /\ SealedPayloads[1] # <<>>
          /\ wire[1].t = "salt"
          /\ rc[Len(rc)] = "cipher"
          /\ dClient.plugin.name = "simple-obfs" =>
                /\ Len(rc) = 3
                /\ wire[1].wrap = IF dClient.plugin.mode = "http"
                                  THEN "http_get" ELSE "tls_record"
    /\ dRet = "ok" => Len(SealedPayloads) = 1 + appWrites
    /\ dRet # "ok" => Len(SealedPayloads) <= 1 /\ appWrites = 0

\* C10 witness: through simple-obfs in http mode, the caller has written a
\* payload on the returned stream and it follows the target address.
C10_Witness ==
    /\ dRet = "ok"
    /\ dClient.plugin.mode = "http"
    /\ dAddr.name = "example.com:80"
    /\ Len(SealedPayloads) = 2
    /\ SealedPayloads[2] \in AppPayloads

(***************************************************************************)
(* SpecStats: the Collector's counters under the calls TrackedConns make.  *)
(* Every counter is an atomic.Int64 and every call is one atomic Add, so   *)
(* the calls of concurrent connections interleave as whole steps. n is     *)
(* what the wrapped connection's Read or Write returned.                   *)
(***************************************************************************)
TConnIds == 1..MaxTracked

InitStats ==
    /\ ManagerAtRest
    /\ ReloadIdle
    /\ ShutdownTwiceIdle
    /\ GetConfigIdle
    /\ CountersIdle
    /\ StopIdle
    /\ SpeedIdle
    /\ PoolIdle
    /\ RelayIdle
    /\ TargetIdle
    /\ TLSWriteIdle
    /\ TLSReadIdle
    /\ ObfsReadIdle
    /\ ObfsWriteIdle
    /\ ConfigIdle
    /\ CipherIdle
    /\ StartIdle
    /\ ShutdownIdle
    /\ DetectIdle
    /\ DialIdle
    /\ StatsIdle

statsFrame == <<ssClient, oldClients, config, captured, collectorOn, nextId,
                reloads, lastReload, listener, ctxDone, acceptLoop, crashed,
                conn, reloadVars, detectVars, dialVars, shutdownVars, startVars, cipherVars, configVars, obfsWriteVars, obfsReadVars, tlsReadVars, tlsWriteVars, targetVars, relayVars, poolVars, speedVars, stopVars, counterVars, getConfigVars, stopTwiceVars>>

\* stats.NewTrackedConn(conn, collector, proxyType, target).
TrackConn(t, proxyType) ==
    /\ tconns[t] = "none"
    /\ \A u \in TConnIds : u < t => tconns[u] # "none"
    /\ tconns' = [tconns EXCEPT ![t] = "open"]
    /\ stats' = RecordConnection(stats, proxyType)
    /\ UNCHANGED statsFrame

\* TrackedConn.Read: n bytes came from the wrapped connection; a closed
\* connection gives none.
TrackedRead(t, n) ==
    /\ tconns[t] # "none"
    /\ tconns[t] = "closed" => n = 0
    /\ stats.received + n <= MaxBytes
    /\ stats' = IF n > 0 THEN RecordBytesReceived(stats, n) ELSE stats
    /\ UNCHANGED <<tconns, statsFrame>>

\* TrackedConn.Write: n bytes went to the wrapped connection.
TrackedWrite(t, n) ==
    /\ tconns[t] # "none"
    /\ tconns[t] = "closed" => n = 0
    /\ stats.sent + n <= MaxBytes
    /\ stats' = IF n > 0 THEN RecordBytesSent(stats, n) ELSE stats
    /\ UNCHANGED <<tconns, statsFrame>>

\* TrackedConn.Close.
TrackedClose(t) ==
    /\ tconns[t] # "none"
    /\ stats' = TrackedConnClose(stats, tconns[t])
    /\ tconns' = [tconns EXCEPT ![t] = "closed"]
    /\ UNCHANGED statsFrame

NextStats ==
    \/ \E t \in TConnIds, proxyType \in {"http", "socks5"} : TrackConn(t, proxyType)
    \/ \E t \in TConnIds, n \in 0..MaxChunk : TrackedRead(t, n)
    \/ \E t \in TConnIds, n \in 0..MaxChunk : TrackedWrite(t, n)
    \/ \E t \in TConnIds : TrackedClose(t)

SpecStats == InitStats /\ [][NextStats]_vars

(***************************************************************************)
(* Claims checked under SpecStats.                                         *)
(***************************************************************************)
\* C12: no step decreases bytes_sent or bytes_received, whichever tracked
\* connection reads, writes or closes; so each counter at a later state is
\* at least its value at every earlier state.
C12_BytesMonotonic ==
    [][ /\ stats'.sent >= stats.sent
        /\ stats'.received >= stats.received ]_vars

\* C12 witness: two tracked connections exist, one of them closed, and both
\* counters have grown by reads and writes of different sizes.
C12_Witness ==
    /\ \A t \in TConnIds : tconns[t] # "none"
    /\ \E t \in TConnIds : tconns[t] = "closed"
    /\ stats.sent = MaxBytes
    /\ stats.received = MaxBytes

(***************************************************************************)
(* SpecShutdown: Manager.Shutdown while the unified proxy serves           *)
(* connections. The connection handlers are those of Spec; the accept loop *)
(* and the goroutine that closes the listener on cancellation are those of *)
(* UnifiedProxy.Start. SpecShutdownFair adds that the goroutines of Start  *)
(* are scheduled.                                                          *)
(***************************************************************************)
InitShutdown ==
    /\ ManagerAtRest
    /\ ReloadIdle
    /\ ShutdownTwiceIdle
    /\ GetConfigIdle
    /\ CountersIdle
    /\ StopIdle
    /\ SpeedIdle
    /\ PoolIdle
    /\ RelayIdle
    /\ TargetIdle
    /\ TLSWriteIdle
    /\ TLSReadIdle
    /\ ObfsReadIdle
    /\ ObfsWriteIdle
    /\ ConfigIdle
    /\ CipherIdle
    /\ StartIdle
    /\ DetectIdle
    /\ DialIdle
    /\ StatsIdle
    /\ ShutdownIdle

shutdownFrame == <<managerVars, crashed, stats, conn, reloadVars, detectVars,
                   dialVars, statsVars, startVars, cipherVars, configVars, obfsWriteVars, obfsReadVars, tlsReadVars, tlsWriteVars, targetVars, relayVars, poolVars, speedVars, stopVars, counterVars, getConfigVars, stopTwiceVars>>

\* Manager.Shutdown: m.cancelFunc().
ShutdownCancel ==
    /\ shutdown = "idle"
    /\ ctxDone' = TRUE
    /\ shutdown' = "cancelled"
    /\ UNCHANGED <<listener, acceptLoop, shutdownFrame>>

\* Manager.Shutdown: m.unifiedProxy.Shutdown(ctx), which closes the listener,
\* and return nil. Nothing waits for the handlers and no connection is
\* closed.
ShutdownStop ==
    /\ shutdown = "cancelled"
    /\ listener' = "closed"
    /\ shutdown' = "returned"
    /\ UNCHANGED <<ctxDone, acceptLoop, shutdownFrame>>

\* UnifiedProxy.Start: the goroutine `<-ctx.Done(); u.listener.Close()`.
CtxCloser ==
    /\ ctxDone
    /\ listener = "open"
    /\ listener' = "closed"
    /\ UNCHANGED <<ctxDone, acceptLoop, shutdown, shutdownFrame>>

\* The accept loop as it would be if an Accept error always continued.
AcceptError_Continues ==
    /\ acceptLoop = "running"
    /\ listener = "closed"
    /\ UNCHANGED vars

\* UnifiedProxy.Start: Accept fails on the closed listener; the loop returns
\* nil when ctx is done and continues otherwise.
AcceptError ==
    /\ acceptLoop = "running"
    /\ listener = "closed"
    /\ acceptLoop' = IF ctxDone THEN "exited" ELSE acceptLoop
    /\ UNCHANGED <<listener, ctxDone, shutdown, shutdownFrame>>

NextShutdown ==
    \/ \E c \in ConnIds : Accept(c)
    \/ \E c \in ConnIds : handleConnection(c)
    \/ \E c \in ConnIds : HandshakeFail(c)
    \/ \E c \in ConnIds : DialBegin(c)
    \/ \E c \in ConnIds : DialEnd(c)
    \/ \E c \in ConnIds : RelayCopy(c)
    \/ \E c \in ConnIds : RelayEnd(c)
    \/ ShutdownCancel
    \/ ShutdownStop
    \/ CtxCloser
    \/ AcceptError

SpecShutdown == InitShutdown /\ [][NextShutdown]_vars

SpecShutdownFair ==
    /\ InitShutdown
    /\ [][NextShutdown]_vars
    /\ WF_vars(CtxCloser)
    /\ WF_vars(AcceptError)

(***************************************************************************)
(* Claims checked under SpecShutdown and SpecShutdownFair.                 *)
(***************************************************************************)
\* C13: once Manager.Shutdown has returned, no client connection and no
\* upstream connection of the proxy is open and no relay is running.
C13_ShutdownClosesAll ==
    shutdown = "returned" =>
        \A c \in ConnIds :
            /\ conn[c].state # "relay"
            /\ conn[c].clientSock # "open"
            /\ conn[c].upSock # "open"

\* C14: after the manager's context is cancelled the unified accept loop
\* terminates with the listener closed, and once it has terminated no
\* connection is accepted.
C14_AcceptLoopTerminates ==
    /\ ctxDone ~> (acceptLoop = "exited" /\ listener = "closed")
    /\ [][ acceptLoop = "exited" =>
             /\ acceptLoop' = "exited"
             /\ listener' = "closed"
             /\ \A c \in ConnIds : conn[c].state = "free" => conn'[c].state = "free" ]_vars

\* C14 witness: the loop has exited after a cancellation that found a
\* connection being served.
C14_Witness ==
    /\ ctxDone
    /\ acceptLoop = "exited"
    /\ listener = "closed"
    /\ \E c \in ConnIds : conn[c].state = "relay"

(***************************************************************************)
(* SpecStart: runStart from mgr.Start() on, for every listener             *)
(* configuration NewManager builds and every set of addresses already in   *)
(* use. A listener started on a goroutine binds after Start has moved on.  *)
(***************************************************************************)
InitStart ==
    /\ ManagerAtRest
    /\ ReloadIdle
    /\ ShutdownTwiceIdle
    /\ GetConfigIdle
    /\ CountersIdle
    /\ StopIdle
    /\ SpeedIdle
    /\ PoolIdle
    /\ RelayIdle
    /\ TargetIdle
    /\ TLSWriteIdle
    /\ TLSReadIdle
    /\ ObfsReadIdle
    /\ ObfsWriteIdle
    /\ ConfigIdle
    /\ CipherIdle
    /\ DetectIdle
    /\ DialIdle
    /\ StatsIdle
    /\ ShutdownIdle
    /\ lcfg \in {{"unified"}, {"http"}, {"socks5"}, {"http", "socks5"}}
    /\ inUse \in SUBSET Listeners
    /\ startPc = "call"
    /\ startRet = "none"
    /\ bound = [l \in Listeners |-> "none"]
    /\ exit = "none"

startFrame == <<mainVars, reloadVars, detectVars, dialVars, statsVars,
                shutdownVars, lcfg, inUse, cipherVars, configVars, obfsWriteVars, obfsReadVars, tlsReadVars, tlsWriteVars, targetVars, relayVars, poolVars, speedVars, stopVars, counterVars, getConfigVars, stopTwiceVars>>

\* Manager.Start, unified proxy: `go func() { m.unifiedProxy.Start(m.ctx) }()`
\* and return nil.
StartUnified ==
    /\ startPc = "call"
    /\ "unified" \in lcfg
    /\ bound' = [bound EXCEPT !["unified"] = "starting"]
    /\ startRet' = "nil"
    /\ startPc' = "returned"
    /\ UNCHANGED <<exit, startFrame>>

\* Manager.Start without a unified proxy goes on to the separate servers.
StartSeparate ==
    /\ startPc = "call"
    /\ "unified" \notin lcfg
    /\ startPc' = "http"
    /\ UNCHANGED <<startRet, bound, exit, startFrame>>

\* HTTPServer.Start: `go func() { h.server.ListenAndServe() }()`, return nil.
StartHTTP ==
    /\ startPc = "http"
    /\ bound' = IF "http" \in lcfg
                THEN [bound EXCEPT !["http"] = "starting"] ELSE bound
    /\ startPc' = "socks5"
    /\ UNCHANGED <<startRet, exit, startFrame>>

\* SOCKS5Server.Start: net.Listen in the caller; its error is returned by
\* Manager.Start. Then Manager.Start returns nil.
StartSOCKS5 ==
    /\ startPc = "socks5"
    /\ IF "socks5" \in lcfg /\ "socks5" \in inUse
       THEN /\ bound' = [bound EXCEPT !["socks5"] = "failed"]
            /\ startRet' = "error"
       ELSE /\ bound' = IF "socks5" \in lcfg
                        THEN [bound EXCEPT !["socks5"] = "listening"] ELSE bound
            /\ startRet' = "nil"
    /\ startPc' = "returned"
    /\ UNCHANGED <<exit, startFrame>>

\* The goroutine of the unified proxy or of the HTTP server binds: on a
\* failure it logs the error and ends.
GoListen(l) ==
    /\ bound[l] = "starting"
    /\ bound' = [bound EXCEPT ![l] = IF l \in inUse THEN "failed" ELSE "listening"]
    /\ UNCHANGED <<startPc, startRet, exit, startFrame>>

\* runStart after mgr.Start(): an error is returned to cobra (exit status
\* 1); otherwise it waits for a signal.
RunStart ==
    /\ startPc = "returned"
    /\ exit = "none"
    /\ exit' = IF startRet = "error" THEN "nonzero" ELSE "serving"
    /\ UNCHANGED <<startPc, startRet, bound, startFrame>>

NextStart ==
    \/ StartUnified
    \/ StartSeparate
    \/ StartHTTP
    \/ StartSOCKS5
    \/ \E l \in Listeners : GoListen(l)
    \/ RunStart

SpecStart == InitStart /\ [][NextStart]_vars

(***************************************************************************)
(* Claims checked under SpecStart.                                         *)
(***************************************************************************)
\* C15: when the address of a configured listener (unified, HTTP or SOCKS5)
\* is in use, Manager.Start returns an error and the start command exits
\* non-zero: it never goes on to serve.
C15_BindFailureFatal ==
    (lcfg \cap inUse # {}) =>
        /\ startPc = "returned" => startRet = "error"
        /\ exit # "serving"


(***************************************************************************)
(* SpecCipher: normalizeCipherName as a function on cipher names, applied  *)
(* to accepted, canonical and unknown names in several letter cases, and   *)
(* then again to its own result. Names are sequences of characters.        *)
(***************************************************************************)
LowerLetters == <<"a", "b", "c", "d", "e", "f", "g", "h", "i", "j", "k", "l", "m", "n", "o", "p", "q", "r", "s", "t", "u", "v", "w", "x", "y", "z">>

UpperLetters == <<"A", "B", "C", "D", "E", "F", "G", "H", "I", "J", "K", "L", "M", "N", "O", "P", "Q", "R", "S", "T", "U", "V", "W", "X", "Y", "Z">>

LetterIndex(letters, ch) == CHOOSE i \in 1..Len(letters) : letters[i] = ch

IsIn(letters, ch) == \E i \in 1..Len(letters) : letters[i] = ch

UpperChar(ch) ==
    IF IsIn(LowerLetters, ch) THEN UpperLetters[LetterIndex(LowerLetters, ch)] ELSE ch

LowerChar(ch) ==
    IF IsIn(UpperLetters, ch) THEN LowerLetters[LetterIndex(UpperLetters, ch)] ELSE ch

\* strings.ToUpper.
ToUpper(str) == [i \in 1..Len(str) |-> UpperChar(str[i])]

\* strings.ReplaceAll(str, "-", "_").
ReplaceDashes(str) == [i \in 1..Len(str) |-> IF str[i] = "-" THEN "_" ELSE str[i]]

\* strings.HasPrefix.
HasPrefix(str, prefix) ==
    Len(str) >= Len(prefix) /\ SubSeq(str, 1, Len(prefix)) = prefix

AeadPrefix == <<"A", "E", "A", "D", "_">>

\* cipherMap: upper-cased common names and their go-shadowsocks2 names.
cipherMap ==
    { <<<<"A", "E", "S", "-", "1", "2", "8", "-", "G", "C", "M">>,
        <<"A", "E", "A", "D", "_", "A", "E", "S", "_", "1", "2", "8", "_", "G", "C", "M">>>>,
      <<<<"A", "E", "S", "-", "1", "9", "2", "-", "G", "C", "M">>,
        <<"A", "E", "A", "D", "_", "A", "E", "S", "_", "1", "9", "2", "_", "G", "C", "M">>>>,
      <<<<"A", "E", "S", "-", "2", "5", "6", "-", "G", "C", "M">>,
        <<"A", "E", "A", "D", "_", "A", "E", "S", "_", "2", "5", "6", "_", "G", "C", "M">>>>,
      <<<<"C", "H", "A", "C", "H", "A", "2", "0", "-", "P", "O", "L", "Y", "1", "3", "0", "5">>,
        <<"A", "E", "A", "D", "_", "C", "H", "A", "C", "H", "A", "2", "0", "_", "P", "O", "L", "Y", "1", "3", "0", "5">>>>,
      <<<<"C", "H", "A", "C", "H", "A", "2", "0", "-", "I", "E", "T", "F", "-", "P", "O", "L", "Y", "1", "3", "0", "5">>,
        <<"A", "E", "A", "D", "_", "C", "H", "A", "C", "H", "A", "2", "0", "_", "P", "O", "L", "Y", "1", "3", "0", "5">>>>,
      <<<<"X", "C", "H", "A", "C", "H", "A", "2", "0", "-", "P", "O", "L", "Y", "1", "3", "0", "5">>,
        <<"A", "E", "A", "D", "_", "X", "C", "H", "A", "C", "H", "A", "2", "0", "_", "P", "O", "L", "Y", "1", "3", "0", "5">>>> }

InCipherMap(str) == \E e \in cipherMap : e[1] = str

Mapped(str) == (CHOOSE e \in cipherMap : e[1] = str)[2]

\* normalizeCipherName as it would be if the map were looked up with the
\* dashes already replaced.
normalizeCipherName_LooksUpNormalized(name) ==
    LET cipher == ToUpper(name)
        normalized == ReplaceDashes(cipher)
    IN  IF HasPrefix(normalized, AeadPrefix) THEN normalized
        ELSE IF InCipherMap(normalized) THEN Mapped(normalized)
        ELSE AeadPrefix \o normalized

\* normalizeCipherName as it would be if it added the prefix to every name.
normalizeCipherName_AlwaysPrefixes(name) ==
    AeadPrefix \o ReplaceDashes(ToUpper(name))

(***************************************************************************)
(* normalizeCipherName: upper-case the name; with dashes replaced by       *)
(* underscores, a name that starts with AEAD_ is taken as it is; else the  *)
(* upper-cased name is looked up in cipherMap; else AEAD_ is put before    *)
(* the name with its dashes replaced.                                      *)
(***************************************************************************)
normalizeCipherName(name) ==
    LET cipher == ToUpper(name)
        normalized == ReplaceDashes(cipher)
    IN  IF HasPrefix(normalized, AeadPrefix) THEN normalized
        ELSE IF InCipherMap(cipher) THEN Mapped(cipher)
        ELSE AeadPrefix \o normalized

\* The names given: the accepted short names, the canonical names, and
\* names that are neither.
CipherNames ==
    { <<"a", "e", "s", "-", "1", "2", "8", "-", "g", "c", "m">>,
      <<"a", "e", "s", "-", "1", "9", "2", "-", "g", "c", "m">>,
      <<"a", "e", "s", "-", "2", "5", "6", "-", "g", "c", "m">>,
      <<"c", "h", "a", "c", "h", "a", "2", "0", "-", "p", "o", "l", "y", "1", "3", "0", "5">>,
      <<"c", "h", "a", "c", "h", "a", "2", "0", "-", "i", "e", "t", "f", "-", "p", "o", "l", "y", "1", "3", "0", "5">>,
      <<"x", "c", "h", "a", "c", "h", "a", "2", "0", "-", "p", "o", "l", "y", "1", "3", "0", "5">>,
      <<"A", "E", "A", "D", "_", "A", "E", "S", "_", "1", "2", "8", "_", "G", "C", "M">>,
      <<"A", "E", "A", "D", "_", "A", "E", "S", "_", "1", "9", "2", "_", "G", "C", "M">>,
      <<"A", "E", "A", "D", "_", "A", "E", "S", "_", "2", "5", "6", "_", "G", "C", "M">>,
      <<"A", "E", "A", "D", "_", "C", "H", "A", "C", "H", "A", "2", "0", "_", "P", "O", "L", "Y", "1", "3", "0", "5">>,
      <<"A", "E", "A", "D", "_", "X", "C", "H", "A", "C", "H", "A", "2", "0", "_", "P", "O", "L", "Y", "1", "3", "0", "5">>,
      <<"r", "c", "4", "-", "m", "d", "5">>,
      <<"a", "e", "s", "_", "2", "5", "6", "_", "g", "c", "m">>,
      <<"a", "e", "a", "d", "-", "a", "e", "s", "-", "1", "2", "8", "-", "g", "c", "m">>,
      <<>> }

Casings == {"given", "upper", "lower", "mixed"}

\* The name with its letters cased as the casing says.
Cased(str, c) ==
    [i \in 1..Len(str) |->
        CASE c = "upper" -> UpperChar(str[i])
          [] c = "lower" -> LowerChar(str[i])
          [] c = "mixed" -> IF i % 2 = 0 THEN UpperChar(str[i]) ELSE LowerChar(str[i])
          [] OTHER -> str[i]]

InitCipher ==
    /\ ManagerAtRest
    /\ ReloadIdle
    /\ ShutdownTwiceIdle
    /\ GetConfigIdle
    /\ CountersIdle
    /\ StopIdle
    /\ SpeedIdle
    /\ PoolIdle
    /\ RelayIdle
    /\ TargetIdle
    /\ TLSWriteIdle
    /\ TLSReadIdle
    /\ ObfsReadIdle
    /\ ObfsWriteIdle
    /\ ConfigIdle
    /\ DetectIdle
    /\ DialIdle
    /\ StatsIdle
    /\ ShutdownIdle
    /\ StartIdle
    /\ cipherBase \in CipherNames
    /\ casing \in Casings
    /\ outs = <<Cased(cipherBase, casing)>>

cipherFrame == <<mainVars, reloadVars, detectVars, dialVars, statsVars,
                 shutdownVars, startVars, cipherBase, casing, configVars, obfsWriteVars, obfsReadVars, tlsReadVars, tlsWriteVars, targetVars, relayVars, poolVars, speedVars, stopVars, counterVars, getConfigVars, stopTwiceVars>>

\* normalizeCipherName is applied to the name as it stands.
Normalize ==
    /\ Len(outs) <= MaxNormalize
    /\ outs' = Append(outs, normalizeCipherName(outs[Len(outs)]))
    /\ UNCHANGED cipherFrame

NextCipher == Normalize

SpecCipher == InitCipher /\ [][NextCipher]_vars

(***************************************************************************)
(* Claims checked under SpecCipher.                                        *)
(***************************************************************************)
\* The canonical form the specification's table gives for an accepted name
\* (<<>> for a name that is not in the table).
CanonicalOf(name) ==
    CASE name \in {<<"a", "e", "s", "-", "1", "2", "8", "-", "g", "c", "m">>,
                   <<"A", "E", "A", "D", "_", "A", "E", "S", "_", "1", "2", "8", "_", "G", "C", "M">>} ->
           <<"A", "E", "A", "D", "_", "A", "E", "S", "_", "1", "2", "8", "_", "G", "C", "M">>
      [] name \in {<<"a", "e", "s", "-", "1", "9", "2", "-", "g", "c", "m">>,
                   <<"A", "E", "A", "D", "_", "A", "E", "S", "_", "1", "9", "2", "_", "G", "C", "M">>} ->
           <<"A", "E", "A", "D", "_", "A", "E", "S", "_", "1", "9", "2", "_", "G", "C", "M">>
      [] name \in {<<"a", "e", "s", "-", "2", "5", "6", "-", "g", "c", "m">>,
                   <<"A", "E", "A", "D", "_", "A", "E", "S", "_", "2", "5", "6", "_", "G", "C", "M">>} ->
           <<"A", "E", "A", "D", "_", "A", "E", "S", "_", "2", "5", "6", "_", "G", "C", "M">>
      [] name \in {<<"c", "h", "a", "c", "h", "a", "2", "0", "-", "p", "o", "l", "y", "1", "3", "0", "5">>,
                   <<"c", "h", "a", "c", "h", "a", "2", "0", "-", "i", "e", "t", "f", "-", "p", "o", "l", "y", "1", "3", "0", "5">>,
                   <<"A", "E", "A", "D", "_", "C", "H", "A", "C", "H", "A", "2", "0", "_", "P", "O", "L", "Y", "1", "3", "0", "5">>} ->
           <<"A", "E", "A", "D", "_", "C", "H", "A", "C", "H", "A", "2", "0", "_", "P", "O", "L", "Y", "1", "3", "0", "5">>
      [] name \in {<<"x", "c", "h", "a", "c", "h", "a", "2", "0", "-", "p", "o", "l", "y", "1", "3", "0", "5">>,
                   <<"A", "E", "A", "D", "_", "X", "C", "H", "A", "C", "H", "A", "2", "0", "_", "P", "O", "L", "Y", "1", "3", "0", "5">>} ->
           <<"A", "E", "A", "D", "_", "X", "C", "H", "A", "C", "H", "A", "2", "0", "_", "P", "O", "L", "Y", "1", "3", "0", "5">>
      [] OTHER -> <<>>

\* C17: whatever the letter case of the input, normalization maps
\* aes-128-gcm, aes-192-gcm, aes-256-gcm, chacha20-poly1305,
\* chacha20-ietf-poly1305 and xchacha20-poly1305 to their AEAD_ names, and
\* each of the five canonical names to itself.
C17_NormalizationTable ==
    (Len(outs) >= 2 /\ CanonicalOf(cipherBase) # <<>>) =>
        outs[2] = CanonicalOf(cipherBase)

\* C17 witness: chacha20-ietf-poly1305 in mixed case has been normalized.
C17_Witness ==
    /\ cipherBase = <<"c", "h", "a", "c", "h", "a", "2", "0", "-", "i", "e", "t", "f", "-", "p", "o", "l", "y", "1", "3", "0", "5">>
    /\ casing = "mixed"
    /\ Len(outs) >= 2
    /\ outs[1] # cipherBase

\* C18: normalizing a normalized name changes nothing, for accepted,
\* canonical and unknown names in any letter case.
C18_NormalizationIdempotent ==
    \A i \in 2..Len(outs) : outs[i] = outs[2]

\* C18 witness: an unknown name has been normalized twice.
C18_Witness ==
    /\ cipherBase = <<"r", "c", "4", "-", "m", "d", "5">>
    /\ casing = "lower"
    /\ Len(outs) = 3
    /\ outs[3] # outs[1]


(***************************************************************************)
(* SpecConfig: runStart from the configuration file to the Config handed   *)
(* to NewManager. A server is [host, port], port 0 meaning that the string *)
(* has no ":port" part; an unset string is "" (<<>> for a cipher name) and *)
(* an unset number 0, as in the code.                                      *)
(***************************************************************************)
NoServer == [host |-> "", port |-> 0]

\* The zero Config of runStart's no-file branch.
EmptyConfig ==
    [Server |-> NoServer, Port |-> 0, Password |-> "", Cipher |-> <<>>,
     Method |-> <<>>, Unified |-> "", HTTPListen |-> "", SOCKS5Listen |-> ""]

FileCipher == <<"A", "E", "A", "D", "_", "A", "E", "S", "_", "1", "2", "8", "_", "G", "C", "M">>

EnvCipher == <<"A", "E", "A", "D", "_", "A", "E", "S", "_", "1", "9", "2", "_", "G", "C", "M">>

FlagCipher == <<"A", "E", "A", "D", "_", "A", "E", "S", "_", "2", "5", "6", "_", "G", "C", "M">>

DefaultCipher == <<"A", "E", "A", "D", "_", "C", "H", "A", "C", "H", "A", "2", "0", "_", "P", "O", "L", "Y", "1", "3", "0", "5">>

\* The configuration files given: none, or one with a server, a port and a
\* password, a cipher under either key or none, and proxies as a string,
\* as an object or absent.
ConfigFiles ==
    {[present |-> FALSE, cfg |-> EmptyConfig]} \cup
    { [present |-> TRUE,
       cfg |-> [EmptyConfig EXCEPT !.Server = [host |-> "file.host", port |-> 0],
                                   !.Port = 8388,
                                   !.Password = "file-pw",
                                   !.Cipher = c[1],
                                   !.Method = c[2],
                                   !.Unified = l[1],
                                   !.HTTPListen = l[2]]] :
        c \in {<<<<>>, <<>>>>, <<FileCipher, <<>>>>, <<<<>>, FileCipher>>},
        l \in {<<"", "">>, <<"127.0.0.1:1081", "">>, <<"", "127.0.0.1:8081">>} }

\* The environment: LIGHT_SS_SERVER, LIGHT_SS_CIPHER, LIGHT_SS_HTTP_LISTEN.
Environments ==
    [server : {NoServer, [host |-> "env.host", port |-> 7000]},
     cipher : {<<>>, EnvCipher},
     httpListen : {"", "127.0.0.1:8082"}]

\* The flags: --server, --port, --password, --method, --proxies,
\* --http-proxy.
FlagSets ==
    [ssServer : {"", "cli.host"},
     ssPort : {0, 9000},
     ssPassword : {"cli-pw"},
     ssMethod : {<<>>, FlagCipher},
     proxies : {"", "127.0.0.1:1083"},
     httpProxy : {"", "127.0.0.1:8083"}]

\* applyEnvOverrides.
applyEnvOverrides(c, env) ==
    [c EXCEPT !.Server = IF env.server # NoServer THEN env.server ELSE @,
              !.Cipher = IF env.cipher # <<>> THEN env.cipher ELSE @,
              !.HTTPListen = IF env.httpListen # "" THEN env.httpListen ELSE @]

\* Config.Validate: the checks, then the defaults.
ValidateOk(c) == c.Server.host # "" /\ c.Password # ""

Validate(c) ==
    LET server == IF c.Port > 0 /\ c.Server.port = 0
                  THEN [c.Server EXCEPT !.port = c.Port] ELSE c.Server
        cipher == IF c.Method # <<>> /\ c.Cipher = <<>> THEN c.Method ELSE c.Cipher
    IN  [c EXCEPT !.Server = server,
                  !.Cipher = IF cipher = <<>> THEN DefaultCipher ELSE cipher,
                  !.Unified = IF c.Unified = "" /\ c.HTTPListen = "" /\ c.SOCKS5Listen = ""
                              THEN "127.0.0.1:1080" ELSE @]

\* applyFlags: a flag that is set overwrites its field; --method goes to
\* Method; --proxies clears the separate addresses and --http-proxy clears
\* the unified one.
applyFlags(c, f) ==
    [c EXCEPT !.Server = IF f.ssServer # "" THEN [host |-> f.ssServer, port |-> 0] ELSE @,
              !.Port = IF f.ssPort # 0 THEN f.ssPort ELSE @,
              !.Password = IF f.ssPassword # "" THEN f.ssPassword ELSE @,
              !.Method = IF f.ssMethod # <<>> THEN f.ssMethod ELSE @,
              !.Unified = IF f.httpProxy # "" THEN ""
                          ELSE IF f.proxies # "" THEN f.proxies ELSE @,
              !.HTTPListen = IF f.httpProxy # "" THEN f.httpProxy
                             ELSE IF f.proxies # "" THEN "" ELSE @,
              !.SOCKS5Listen = IF f.proxies # "" THEN "" ELSE @]

InitConfig ==
    /\ ManagerAtRest
    /\ ReloadIdle
    /\ ShutdownTwiceIdle
    /\ GetConfigIdle
    /\ CountersIdle
    /\ StopIdle
    /\ SpeedIdle
    /\ PoolIdle
    /\ RelayIdle
    /\ TargetIdle
    /\ TLSWriteIdle
    /\ TLSReadIdle
    /\ ObfsReadIdle
    /\ ObfsWriteIdle
    /\ DetectIdle
    /\ DialIdle
    /\ StatsIdle
    /\ ShutdownIdle
    /\ StartIdle
    /\ CipherIdle
    /\ cfgIn \in [file : ConfigFiles, env : Environments, flags : FlagSets]
    /\ runCfg = EmptyConfig
    /\ cfgPc = "load"
    /\ cfgErr = FALSE

configFrame == <<mainVars, reloadVars, detectVars, dialVars, statsVars,
                 shutdownVars, startVars, cipherVars, cfgIn, obfsWriteVars, obfsReadVars, tlsReadVars, tlsWriteVars, targetVars, relayVars, poolVars, speedVars, stopVars, counterVars, getConfigVars, stopTwiceVars>>

\* runStart: LoadConfig reads the file when --config is given; otherwise the
\* zero Config is used and LoadConfig is not called.
LoadFile ==
    /\ cfgPc = "load"
    /\ runCfg' = cfgIn.file.cfg
    /\ cfgPc' = IF cfgIn.file.present THEN "env" ELSE "flags"
    /\ UNCHANGED <<cfgErr, configFrame>>

\* LoadConfig: applyEnvOverrides(&cfg).
ApplyEnv ==
    /\ cfgPc = "env"
    /\ runCfg' = applyEnvOverrides(runCfg, cfgIn.env)
    /\ cfgPc' = "validate"
    /\ UNCHANGED <<cfgErr, configFrame>>

\* LoadConfig: cfg.Validate().
ValidateLoaded ==
    /\ cfgPc = "validate"
    /\ IF ValidateOk(runCfg)
       THEN runCfg' = Validate(runCfg) /\ cfgPc' = "normalize" /\ UNCHANGED cfgErr
       ELSE cfgErr' = TRUE /\ cfgPc' = "done" /\ UNCHANGED runCfg
    /\ UNCHANGED configFrame

\* LoadConfig: normalizeCipherName(&cfg).
NormalizeLoaded ==
    /\ cfgPc = "normalize"
    /\ runCfg' = [runCfg EXCEPT !.Cipher = normalizeCipherName(@)]
    /\ cfgPc' = "flags"
    /\ UNCHANGED <<cfgErr, configFrame>>

\* runStart: applyFlags(cfg).
ApplyFlags ==
    /\ cfgPc = "flags"
    /\ runCfg' = applyFlags(runCfg, cfgIn.flags)
    /\ cfgPc' = "final"
    /\ UNCHANGED <<cfgErr, configFrame>>

\* runStart: cfg.Validate(), then NewManager(cfg).
ValidateFinal ==
    /\ cfgPc = "final"
    /\ IF ValidateOk(runCfg)
       THEN runCfg' = Validate(runCfg) /\ UNCHANGED cfgErr
       ELSE cfgErr' = TRUE /\ UNCHANGED runCfg
    /\ cfgPc' = "done"
    /\ UNCHANGED configFrame

NextConfig ==
    \/ LoadFile
    \/ ApplyEnv
    \/ ValidateLoaded
    \/ NormalizeLoaded
    \/ ApplyFlags
    \/ ValidateFinal

SpecConfig == InitConfig /\ [][NextConfig]_vars

(***************************************************************************)
(* Claims checked under SpecConfig.                                        *)
(***************************************************************************)
\* The value of the highest level that sets it, levels given from the
\* highest down; unset is the value that stands for "not set".
FirstSet(levels, unset) ==
    IF \E i \in 1..Len(levels) : levels[i] # unset
    THEN levels[CHOOSE i \in 1..Len(levels) :
                  /\ levels[i] # unset
                  /\ \A j \in 1..(i - 1) : levels[j] = unset]
    ELSE unset

\* C16: when startup succeeds, the cipher, the server host, the server port
\* and the listen addresses handed to NewManager are each the value of the
\* highest level that sets it: flag, then environment, then file, then
\* default. (A port written inside LIGHT_SS_SERVER counts only while no
\* --server flag replaces that string.)
C16_Precedence ==
    (cfgPc = "done" /\ ~cfgErr) =>
        LET file == cfgIn.file.cfg
            env == cfgIn.env
            flags == cfgIn.flags
        IN  /\ runCfg.Cipher = FirstSet(<<flags.ssMethod, env.cipher, file.Cipher,
                                       file.Method, DefaultCipher>>, <<>>)
            /\ runCfg.Server.host = FirstSet(<<flags.ssServer, env.server.host,
                                            file.Server.host>>, "")
            /\ runCfg.Server.port =
                  FirstSet(<<flags.ssPort,
                             IF flags.ssServer = "" THEN env.server.port ELSE 0,
                             file.Port>>, 0)
            /\ flags.proxies = "" =>
                  runCfg.HTTPListen = FirstSet(<<flags.httpProxy, env.httpListen,
                                             file.HTTPListen>>, "")
            /\ flags.httpProxy = "" =>
                  runCfg.Unified \in {FirstSet(<<flags.proxies, file.Unified>>, ""),
                                   "127.0.0.1:1080"}


\* NewManager: the unified proxy when Proxies.Unified is set, else the
\* separate servers whose addresses are set.
ManagerMode(c) == IF c.Unified # "" THEN "unified" ELSE "separate"

\* The listener settings supplied, in the order they are applied: the file,
\* the environment, --proxies, --http-proxy.
SuppliedModes ==
    LET file == cfgIn.file.cfg
        env == cfgIn.env
        flags == cfgIn.flags
    IN  (IF cfgIn.file.present /\ file.Unified # "" THEN <<"unified">> ELSE <<>>)
        \o (IF cfgIn.file.present /\ file.HTTPListen # "" THEN <<"separate">> ELSE <<>>)
        \o (IF env.httpListen # "" THEN <<"separate">> ELSE <<>>)
        \o (IF flags.proxies # "" THEN <<"unified">> ELSE <<>>)
        \o (IF flags.httpProxy # "" THEN <<"separate">> ELSE <<>>)

BothModesSupplied ==
    /\ \E i \in DOMAIN SuppliedModes : SuppliedModes[i] = "unified"
    /\ \E i \in DOMAIN SuppliedModes : SuppliedModes[i] = "separate"

\* C28: when a unified and a separate listener setting are both supplied and
\* startup succeeds, the configuration has exactly one mode set, it is the
\* mode of the setting supplied last, and it is the mode NewManager starts.
C28_LastModeWins ==
    (cfgPc = "done" /\ ~cfgErr /\ BothModesSupplied) =>
        /\ (runCfg.Unified # "") # (runCfg.HTTPListen # "" \/ runCfg.SOCKS5Listen # "")
        /\ ManagerMode(runCfg) = SuppliedModes[Len(SuppliedModes)]

(***************************************************************************)
(* SpecObfsWrite: obfsHTTPConn.Write, byte by byte. A byte is a one-       *)
(* character string; the underlying connection either takes all the bytes  *)
(* of a Write or takes some of them and returns an error.                  *)
(***************************************************************************)
\* The hosts an HTTP-obfs connection is made with: the default of
\* NewSimpleObfs and a configured one.
ObfsHosts == {<<"w", "w", "w", ".", "b", "i", "n", "g", ".", "c", "o", "m">>, <<"c", "d", "n", ".", "e", "x", "a", "m", "p", "l", "e">>}

PayloadBytes == {"a", "H"}

RECURSIVE Repeat(_, _)
Repeat(b, n) == IF n = 0 THEN <<>> ELSE <<b>> \o Repeat(b, n - 1)

\* The payloads written: every short byte string, and a long one whose
\* length takes two digits.
Payloads ==
    UNION {[1..n -> PayloadBytes] : n \in 0..MaxPayload} \cup {Repeat("a", LongPayload)}

DigitChars == <<"0", "1", "2", "3", "4", "5", "6", "7", "8", "9">>

\* fmt's %d of a non-negative int.
RECURSIVE FormatInt(_)
FormatInt(n) ==
    IF n < 10 THEN <<DigitChars[n + 1]>>
    ELSE FormatInt(n \div 10) \o <<DigitChars[(n % 10) + 1]>>

\* The request as it would be with the length of the whole write in
\* Content-Length.
HTTPRequest_CountsHeader(host, n) ==
    <<"G", "E", "T", " ", "/", " ", "H", "T", "T", "P", "/", "1", ".", "1", "\r", "\n">> \o
    <<"H", "o", "s", "t", ":", " ">> \o host \o <<"\r", "\n">> \o
    <<"U", "s", "e", "r", "-", "A", "g", "e", "n", "t", ":", " ", "c", "u", "r", "l", "/", "7", ".", "6", "8", ".", "0", "\r", "\n">> \o
    <<"U", "p", "g", "r", "a", "d", "e", ":", " ", "w", "e", "b", "s", "o", "c", "k", "e", "t", "\r", "\n">> \o
    <<"C", "o", "n", "n", "e", "c", "t", "i", "o", "n", ":", " ", "U", "p", "g", "r", "a", "d", "e", "\r", "\n">> \o
    <<"C", "o", "n", "t", "e", "n", "t", "-", "L", "e", "n", "g", "t", "h", ":", " ">> \o FormatInt(n + 100) \o <<"\r", "\n">> \o
    <<"\r", "\n">>

\* The fmt.Sprintf of Write: the request line and the headers, host and
\* len(b) filled in.
HTTPRequest(host, n) ==
    <<"G", "E", "T", " ", "/", " ", "H", "T", "T", "P", "/", "1", ".", "1", "\r", "\n">> \o
    <<"H", "o", "s", "t", ":", " ">> \o host \o <<"\r", "\n">> \o
    <<"U", "s", "e", "r", "-", "A", "g", "e", "n", "t", ":", " ", "c", "u", "r", "l", "/", "7", ".", "6", "8", ".", "0", "\r", "\n">> \o
    <<"U", "p", "g", "r", "a", "d", "e", ":", " ", "w", "e", "b", "s", "o", "c", "k", "e", "t", "\r", "\n">> \o
    <<"C", "o", "n", "n", "e", "c", "t", "i", "o", "n", ":", " ", "U", "p", "g", "r", "a", "d", "e", "\r", "\n">> \o
    <<"C", "o", "n", "t", "e", "n", "t", "-", "L", "e", "n", "g", "t", "h", ":", " ">> \o FormatInt(n) \o <<"\r", "\n">> \o
    <<"\r", "\n">>

\* How many bytes a failing underlying Write may have taken of a write of
\* total bytes whose first hdr are the request: none, the request short of
\* one byte, the request, or all but the last byte.
ShortCounts(total, hdr) ==
    {k \in {0, hdr - 1, hdr, total - 1} : 0 <= k /\ k < total}

InitObfsWrite ==
    /\ ManagerAtRest
    /\ ReloadIdle
    /\ ShutdownTwiceIdle
    /\ GetConfigIdle
    /\ CountersIdle
    /\ StopIdle
    /\ SpeedIdle
    /\ PoolIdle
    /\ RelayIdle
    /\ TargetIdle
    /\ TLSWriteIdle
    /\ TLSReadIdle
    /\ ObfsReadIdle
    /\ DetectIdle
    /\ DialIdle
    /\ StatsIdle
    /\ ShutdownIdle
    /\ StartIdle
    /\ CipherIdle
    /\ ConfigIdle
    /\ hcHost \in ObfsHosts
    /\ hcFirstWrite = TRUE
    /\ hcWire = <<>>
    /\ hcWritten = <<>>
    /\ hcRet = [n |-> 0, err |-> FALSE]
    /\ hcFailed = FALSE

obfsWriteFrame == <<mainVars, reloadVars, detectVars, dialVars, statsVars,
                    shutdownVars, startVars, cipherVars, configVars, hcHost, obfsReadVars, tlsReadVars, tlsWriteVars, targetVars, relayVars, poolVars, speedVars, stopVars, counterVars, getConfigVars, stopTwiceVars>>

\* Write(b) while firstWrite is set, the underlying Write taking everything:
\* request and payload go out in one write, firstWrite is cleared, and the
\* count returned is that of the underlying Write less the request.
WriteFirst(b) ==
    /\ hcFirstWrite
    /\ Len(hcWritten) < MaxObfsWrites
    /\ LET req == HTTPRequest(hcHost, Len(b))
           combined == req \o b
           n == Len(combined)
       IN  /\ hcWire' = hcWire \o combined
           /\ hcRet' = [n |-> IF n > Len(req) THEN n - Len(req) ELSE 0, err |-> FALSE]
    /\ hcFirstWrite' = FALSE
    /\ hcWritten' = Append(hcWritten, b)
    /\ UNCHANGED <<hcFailed, obfsWriteFrame>>

\* Write(b) while firstWrite is set, the underlying Write failing after k
\* bytes: firstWrite is cleared all the same and Write returns 0 and the
\* error.
WriteFirstFails(b) ==
    /\ hcFirstWrite
    /\ Len(hcWritten) < MaxObfsWrites
    /\ LET req == HTTPRequest(hcHost, Len(b))
           combined == req \o b
       IN  \E k \in ShortCounts(Len(combined), Len(req)) :
               hcWire' = hcWire \o Take(combined, k)
    /\ hcRet' = [n |-> 0, err |-> TRUE]
    /\ hcFirstWrite' = FALSE
    /\ hcFailed' = TRUE
    /\ hcWritten' = Append(hcWritten, b)
    /\ UNCHANGED obfsWriteFrame

\* Write(b) once firstWrite is cleared: c.Conn.Write(b), succeeding.
WriteLater(b) ==
    /\ ~hcFirstWrite
    /\ Len(hcWritten) < MaxObfsWrites
    /\ hcWire' = hcWire \o b
    /\ hcRet' = [n |-> Len(b), err |-> FALSE]
    /\ hcWritten' = Append(hcWritten, b)
    /\ UNCHANGED <<hcFirstWrite, hcFailed, obfsWriteFrame>>

\* Write(b) once firstWrite is cleared, c.Conn.Write(b) failing after k
\* bytes.
WriteLaterFails(b) ==
    /\ ~hcFirstWrite
    /\ Len(hcWritten) < MaxObfsWrites
    /\ b # <<>>
    /\ \E k \in ShortCounts(Len(b), 0) :
           /\ hcWire' = hcWire \o Take(b, k)
           /\ hcRet' = [n |-> k, err |-> TRUE]
    /\ hcFailed' = TRUE
    /\ hcWritten' = Append(hcWritten, b)
    /\ UNCHANGED <<hcFirstWrite, obfsWriteFrame>>

NextObfsWrite ==
    \/ \E b \in Payloads : WriteFirst(b)
    \/ \E b \in Payloads : WriteFirstFails(b)
    \/ \E b \in Payloads : WriteLater(b)
    \/ \E b \in Payloads : WriteLaterFails(b)

SpecObfsWrite == InitObfsWrite /\ [][NextObfsWrite]_vars

(***************************************************************************)
(* Claims checked under SpecObfsWrite.                                     *)
(***************************************************************************)
CRLF == <<"\r", "\n">>

\* The lines of the request of the specification, for a host and a
\* Content-Length value given as digits.
RequestLines(host, digits) ==
    << <<"G", "E", "T", " ", "/", " ", "H", "T", "T", "P", "/", "1", ".", "1">>,
       <<"H", "o", "s", "t", ":", " ">> \o host,
       <<"U", "s", "e", "r", "-", "A", "g", "e", "n", "t", ":", " ", "c", "u", "r", "l", "/", "7", ".", "6", "8", ".", "0">>,
       <<"U", "p", "g", "r", "a", "d", "e", ":", " ", "w", "e", "b", "s", "o", "c", "k", "e", "t">>,
       <<"C", "o", "n", "n", "e", "c", "t", "i", "o", "n", ":", " ", "U", "p", "g", "r", "a", "d", "e">>,
       <<"C", "o", "n", "t", "e", "n", "t", "-", "L", "e", "n", "g", "t", "h", ":", " ">> \o digits,
       <<>> >>

RECURSIVE JoinLines(_)
JoinLines(ls) == IF ls = <<>> THEN <<>> ELSE Head(ls) \o CRLF \o JoinLines(Tail(ls))

RECURSIVE DecimalValue(_)
DecimalValue(ds) ==
    IF ds = <<>> THEN 0
    ELSE 10 * DecimalValue(SubSeq(ds, 1, Len(ds) - 1))
         + (CHOOSE d \in 0..9 : DigitChars[d + 1] = ds[Len(ds)])

\* The decimal numeral of n: digits only, no leading zero, value n.
IsDecimalOf(ds, n) ==
    /\ ds # <<>>
    /\ \A i \in 1..Len(ds) : \E d \in 1..10 : DigitChars[d] = ds[i]
    /\ Len(ds) > 1 => ds[1] # "0"
    /\ DecimalValue(ds) = n

RECURSIVE ConcatAll(_)
ConcatAll(ps) == IF ps = <<>> THEN <<>> ELSE Head(ps) \o ConcatAll(Tail(ps))

\* The wire with everything up to and including the first blank line
\* removed.
StripPreamble(w) ==
    LET ends == {i \in 4..Len(w) : SubSeq(w, i - 3, i) = CRLF \o CRLF}
    IN  IF ends = {} THEN w
        ELSE SubSeq(w, (CHOOSE i \in ends : \A j \in ends : i <= j) + 1, Len(w))

\* C19: while no underlying write has failed, the wire holds the request of
\* the specification, with the decimal length of the first payload as its
\* Content-Length, followed by the payloads written, in order; each Write
\* reports the length of its payload; and the wire less its preamble is the
\* concatenation of the payloads.
C19_FirstWritePreamble ==
    (~hcFailed /\ hcWritten # <<>>) =>
        /\ \E k \in 1..3 :
              LET digits == SubSeq(hcWire, 106 + Len(hcHost) + 1, 106 + Len(hcHost) + k)
              IN  /\ IsDecimalOf(digits, Len(hcWritten[1]))
                  /\ hcWire = JoinLines(RequestLines(hcHost, digits)) \o ConcatAll(hcWritten)
        /\ hcRet = [n |-> Len(hcWritten[Len(hcWritten)]), err |-> FALSE]
        /\ StripPreamble(hcWire) = ConcatAll(hcWritten)

\* Two writes have gone through, the first one of a payload whose length
\* takes two digits, the second one of bytes that spell the start of a
\* header.
C19_Witness ==
    /\ ~hcFailed
    /\ Len(hcWritten) = 2
    /\ Len(hcWritten[1]) >= 10
    /\ hcWritten[2] # <<>>
    /\ Len(hcWire) > Len(hcWritten[1]) + Len(hcWritten[2])


StartsWith(w, p) == Len(p) <= Len(w) /\ SubSeq(w, 1, Len(p)) = p

\* How many times the bytes p occur in w.
Occurrences(w, p) ==
    Cardinality({i \in 1..(Len(w) - Len(p) + 1) : SubSeq(w, i, i + Len(p) - 1) = p})

\* C39: after any sequence of Write calls, failed and partial ones included,
\* the wire is either a part of the request with nothing after it, or the
\* whole request followed by payload bytes: the request is on the wire
\* completely before any payload byte, and its request line occurs once.
C39_PreambleOnceFirst ==
    hcWritten # <<>> =>
        LET req == JoinLines(RequestLines(hcHost, FormatInt(Len(hcWritten[1]))))
        IN  /\ StartsWith(req, hcWire) \/ StartsWith(hcWire, req)
            /\ Occurrences(hcWire, <<"G", "E", "T", " ", "/", " ">>) <= 1

(***************************************************************************)
(* SpecObfsRead: obfsHTTPConn.Read over its bufio.Reader. The server's     *)
(* bytes reach this end in segments of any size; a Read is one step, taken *)
(* when the bytes it waits for are there: Peek(12) returns once 12 bytes   *)
(* have arrived or the server has closed, ReadString once the newline has  *)
(* arrived or the server has closed.                                       *)
(***************************************************************************)
PeekLen == 12

HTTPPrefix == <<"H", "T", "T", "P">>

LF == <<"\n">>

\* What a server may open its stream with: a status line of more than, of
\* exactly and of fewer than 12 bytes, and one that is not HTTP.
StatusLines == {<<"H", "T", "T", "P", "/", "1", ".", "1", " ", "2", "0", "0", " ", "O", "K">>, <<"H", "T", "T", "P", "/", "1", ".", "1", " ", "1", "0", "1">>, <<"H", "T", "T", "P">>, <<"H", "X", "T", "P", "/", "1", ".", "1", " ", "2", "0", "0", " ", "O", "K">>}

\* What follows the headers, or makes up a stream without any.
Bodies == {<<>>, <<"a", "b">>, <<"a", "\r", "\n", "\r", "\n", "b">>, <<"H", "T", "T", "P">>}

\* The inbound streams: a status line, perhaps a header line, perhaps the
\* blank line, lines ending in CRLF or in LF alone, then a body; or a body
\* alone.
InboundStreams ==
    { st \o t \o hdr \o blank \o body :
        st \in StatusLines, t \in {<<"\r", "\n">>, LF},
        hdr \in {<<>>, <<"A", ":", " ", "b", "\r", "\n">>}, blank \in {<<>>, <<"\r", "\n">>, LF},
        body \in Bodies }
    \cup Bodies

\* bufio.Reader.ReadString('\n') from offset off of stream s: the offset
\* after the next newline, or the end of the stream and an error.
ReadString(s, off) ==
    LET nl == {j \in (off + 1)..Len(s) : s[j] = "\n"}
    IN  IF nl = {} THEN [off |-> Len(s), err |-> TRUE]
        ELSE [off |-> CHOOSE j \in nl : \A i \in nl : j <= i, err |-> FALSE]

\* The header loop as it would be if it stopped after the status line.
SkipHeaders_FirstLineOnly(s, off) == ReadString(s, off)

\* The loop of Read: lines are read and dropped until one is "\r\n" or
\* "\n", or ReadString fails.
RECURSIVE SkipHeaders(_, _)
SkipHeaders(s, off) ==
    LET r == ReadString(s, off)
        line == SubSeq(s, off + 1, r.off)
    IN  IF r.err THEN r
        ELSE IF line = <<"\r", "\n">> \/ line = LF THEN r
        ELSE SkipHeaders(s, r.off)

\* Peek(12) gave 12 bytes without an error and they start with HTTP.
SeesHTTP(s) == Len(s) >= PeekLen /\ Take(s, 4) = HTTPPrefix

InitObfsRead ==
    /\ ManagerAtRest
    /\ ReloadIdle
    /\ ShutdownTwiceIdle
    /\ GetConfigIdle
    /\ CountersIdle
    /\ StopIdle
    /\ SpeedIdle
    /\ PoolIdle
    /\ RelayIdle
    /\ TargetIdle
    /\ TLSWriteIdle
    /\ TLSReadIdle
    /\ DetectIdle
    /\ DialIdle
    /\ StatsIdle
    /\ ShutdownIdle
    /\ StartIdle
    /\ CipherIdle
    /\ ConfigIdle
    /\ ObfsWriteIdle
    /\ hrStream \in InboundStreams
    /\ hrArrived = 0
    /\ hrClosed = FALSE
    /\ hrOff = 0
    /\ hrFirstRead = TRUE
    /\ hrDelivered = <<>>
    /\ hrRet = [n |-> 0, err |-> FALSE]

obfsReadFrame == <<mainVars, reloadVars, detectVars, dialVars, statsVars,
                   shutdownVars, startVars, cipherVars, configVars,
                   obfsWriteVars, hrStream, tlsReadVars, tlsWriteVars, targetVars, relayVars, poolVars, speedVars, stopVars, counterVars, getConfigVars, stopTwiceVars>>

\* More of the server's bytes reach this end.
Arrive(k) ==
    /\ hrArrived < k
    /\ k <= Len(hrStream)
    /\ hrArrived' = k
    /\ UNCHANGED <<hrClosed, hrOff, hrFirstRead, hrDelivered, hrRet, obfsReadFrame>>

\* The server closes its side; everything it sent has arrived.
ServerClose ==
    /\ ~hrClosed
    /\ hrArrived = Len(hrStream)
    /\ hrClosed' = TRUE
    /\ UNCHANGED <<hrArrived, hrOff, hrFirstRead, hrDelivered, hrRet, obfsReadFrame>>

\* c.reader.Read(b) with len(b) = n from offset off: some of the bytes that
\* have arrived, at most n, or 0 and io.EOF once the server has closed and
\* nothing is left.
ReaderRead(off, n) ==
    LET avail == hrArrived - off
    IN  \/ /\ avail > 0
           /\ \E k \in 1..Min(n, avail) :
                 /\ hrDelivered' = hrDelivered \o SubSeq(hrStream, off + 1, off + k)
                 /\ hrOff' = off + k
                 /\ hrRet' = [n |-> k, err |-> FALSE]
        \/ /\ avail <= 0
           /\ hrClosed
           /\ hrDelivered' = hrDelivered
           /\ hrOff' = off
           /\ hrRet' = [n |-> 0, err |-> TRUE]

\* Read(b) while firstRead is set: Peek(12); when it gives 12 bytes that
\* start with HTTP the header lines are dropped; then c.reader.Read(b).
FirstRead(n) ==
    /\ hrFirstRead
    /\ hrArrived >= PeekLen \/ hrClosed
    /\ LET skip == IF SeesHTTP(hrStream) THEN SkipHeaders(hrStream, 0)
                   ELSE [off |-> 0, err |-> FALSE]
       IN  /\ IF skip.err THEN hrClosed ELSE hrArrived >= skip.off
           /\ ReaderRead(skip.off, n)
    /\ hrFirstRead' = FALSE
    /\ UNCHANGED <<hrArrived, hrClosed, obfsReadFrame>>

\* Read(b) once firstRead is cleared: c.reader.Read(b).
LaterRead(n) ==
    /\ ~hrFirstRead
    /\ ~hrRet.err
    /\ ReaderRead(hrOff, n)
    /\ UNCHANGED <<hrArrived, hrClosed, hrFirstRead, obfsReadFrame>>

NextObfsRead ==
    \/ \E k \in 1..Len(hrStream) : Arrive(k)
    \/ ServerClose
    \/ \E n \in 1..MaxReadBuf : FirstRead(n)
    \/ \E n \in 1..MaxReadBuf : LaterRead(n)

SpecObfsRead == InitObfsRead /\ [][NextObfsRead]_vars

\* The network delivers what the server has sent and the caller's Read
\* calls run when the bytes they wait for are there; the server is not
\* bound to send more or to close.
SpecObfsReadFair ==
    /\ SpecObfsRead
    /\ WF_vars(\E k \in 1..Len(hrStream) : Arrive(k))
    /\ WF_vars(\E n \in 1..MaxReadBuf : FirstRead(n))
    /\ WF_vars(\E n \in 1..MaxReadBuf : LaterRead(n))

(***************************************************************************)
(* Claims checked under SpecObfsRead.                                      *)
(***************************************************************************)
\* Position i ends a blank line of s: a newline that follows a newline,
\* with at most a carriage return between the two.
EndsBlankLine(s, i) ==
    /\ s[i] = "\n"
    /\ \/ i >= 2 /\ s[i - 1] = "\n"
       \/ i >= 3 /\ s[i - 1] = "\r" /\ s[i - 2] = "\n"

HasBlankLine(s) == \E i \in 1..Len(s) : EndsBlankLine(s, i)

\* The offset of the end of the first blank line of s.
FirstBlankEnd(s) ==
    CHOOSE i \in 1..Len(s) :
        /\ EndsBlankLine(s, i)
        /\ \A j \in 1..(i - 1) : ~EndsBlankLine(s, j)

BeginsHTTP(s) == Len(s) >= 4 /\ SubSeq(s, 1, 4) = HTTPPrefix

\* What Read has delivered is the stream from offset from on, as far as it
\* has been consumed.
DeliveredFrom(from) ==
    /\ hrOff >= from
    /\ hrDelivered = SubSeq(hrStream, from + 1, hrOff)

\* C20 as stated: once the first Read has returned, a stream that begins
\* with HTTP (and has a blank line) is delivered from just after its first
\* blank line on, and any other stream is delivered from its first byte on.
C20_AsStated ==
    ~hrFirstRead =>
        /\ (BeginsHTTP(hrStream) /\ HasBlankLine(hrStream))
              => DeliveredFrom(FirstBlankEnd(hrStream))
        /\ ~BeginsHTTP(hrStream) => DeliveredFrom(0)

\* C20: once the first Read has returned, a stream of at least 12 bytes
\* that begins with HTTP is delivered from just after its first blank line
\* on, or not at all if it has no blank line; any other stream, one that
\* begins with HTTP but ends before its 12th byte included, is delivered
\* from its first byte on.
C20_FirstReadStrips ==
    ~hrFirstRead =>
        IF BeginsHTTP(hrStream) /\ Len(hrStream) >= 12
        THEN IF HasBlankLine(hrStream)
             THEN DeliveredFrom(FirstBlankEnd(hrStream))
             ELSE hrDelivered = <<>>
        ELSE DeliveredFrom(0)

\* The headers of a response with a header line were dropped and the body
\* after them, a blank line of its own included, was delivered whole over
\* more than one Read.
C20_Witness ==
    /\ ~hrFirstRead
    /\ BeginsHTTP(hrStream)
    /\ HasBlankLine(hrStream)
    /\ FirstBlankEnd(hrStream) > 20
    /\ Len(hrDelivered) > MaxReadBuf
    /\ HasBlankLine(hrDelivered)
    /\ hrOff = Len(hrStream)

\* C40: when everything the server has sent has arrived and it is fewer
\* than 12 bytes, the first Read returns some of those bytes, whether or not
\* the server ever sends more or closes.
C40_FirstReadNoWait ==
    (hrFirstRead /\ hrArrived > 0 /\ hrArrived = Len(hrStream) /\ Len(hrStream) < PeekLen)
        ~> (~hrFirstRead /\ hrDelivered # <<>>)

(***************************************************************************)
(* SpecTLSRead: reading from an obfsTLSConn. The type declares Write only; *)
(* Read is the one promoted from the embedded net.Conn. A byte is a number *)
(* 0..255. The server sends its payload as TLS application-data records,   *)
(* cut where it likes.                                                     *)
(***************************************************************************)
\* The record Write builds for a chunk: the header, type 0x17, version
\* 0x03 0x03 and the length as a big-endian uint16, then the chunk.
TLSHeader(n) == <<23, 3, 3, (n \div 256) % 256, n % 256>>

TLSRecord(chunk) == TLSHeader(Len(chunk)) \o chunk

TLSBytes == {65, 23}

\* The ways of cutting a payload in consecutive non-empty chunks.
RECURSIVE Chunkings(_)
Chunkings(b) ==
    IF b = <<>> THEN {<<>>}
    ELSE UNION { { <<SubSeq(b, 1, k)>> \o rest : rest \in Chunkings(SubSeq(b, k + 1, Len(b))) } :
                 k \in 1..Len(b) }

RECURSIVE TLSFrames(_)
TLSFrames(chunks) ==
    IF chunks = <<>> THEN <<>> ELSE TLSRecord(Head(chunks)) \o TLSFrames(Tail(chunks))

InitTLSRead ==
    /\ ManagerAtRest
    /\ ReloadIdle
    /\ ShutdownTwiceIdle
    /\ GetConfigIdle
    /\ CountersIdle
    /\ StopIdle
    /\ SpeedIdle
    /\ PoolIdle
    /\ RelayIdle
    /\ TargetIdle
    /\ TLSWriteIdle
    /\ DetectIdle
    /\ DialIdle
    /\ StatsIdle
    /\ ShutdownIdle
    /\ StartIdle
    /\ CipherIdle
    /\ ConfigIdle
    /\ ObfsWriteIdle
    /\ ObfsReadIdle
    /\ trPayload \in UNION {[1..n -> TLSBytes] : n \in 1..MaxTLSPayload}
    /\ trStream \in {TLSFrames(c) : c \in Chunkings(trPayload)}
    /\ trArrived = 0
    /\ trClosed = FALSE
    /\ trOff = 0
    /\ trDelivered = <<>>
    /\ trRet = [n |-> 0, err |-> FALSE]

tlsReadFrame == <<mainVars, reloadVars, detectVars, dialVars, statsVars,
                  shutdownVars, startVars, cipherVars, configVars,
                  obfsWriteVars, obfsReadVars, trPayload, trStream, tlsWriteVars, targetVars, relayVars, poolVars, speedVars, stopVars, counterVars, getConfigVars, stopTwiceVars>>

\* More of the server's bytes reach this end.
TLSArrive(k) ==
    /\ trArrived < k
    /\ k <= Len(trStream)
    /\ trArrived' = k
    /\ UNCHANGED <<trClosed, trOff, trDelivered, trRet, tlsReadFrame>>

\* The server closes its side; everything it sent has arrived.
TLSServerClose ==
    /\ ~trClosed
    /\ trArrived = Len(trStream)
    /\ trClosed' = TRUE
    /\ UNCHANGED <<trArrived, trOff, trDelivered, trRet, tlsReadFrame>>

\* Read(b) with len(b) = n on the obfsTLSConn, that is on its net.Conn: some
\* of the bytes that have arrived, at most n, as they are.
TLSRead(n) ==
    /\ trArrived > trOff
    /\ \E k \in 1..Min(n, trArrived - trOff) :
          /\ trDelivered' = trDelivered \o SubSeq(trStream, trOff + 1, trOff + k)
          /\ trOff' = trOff + k
          /\ trRet' = [n |-> k, err |-> FALSE]
    /\ UNCHANGED <<trArrived, trClosed, tlsReadFrame>>

\* Read(b) once the server has closed and nothing is left: 0 and io.EOF.
TLSReadEOF ==
    /\ trArrived = trOff
    /\ trClosed
    /\ ~trRet.err
    /\ trRet' = [n |-> 0, err |-> TRUE]
    /\ UNCHANGED <<trArrived, trClosed, trOff, trDelivered, tlsReadFrame>>

NextTLSRead ==
    \/ \E k \in 1..Len(trStream) : TLSArrive(k)
    \/ TLSServerClose
    \/ \E n \in 1..MaxReadBuf : TLSRead(n)
    \/ TLSReadEOF

SpecTLSRead == InitTLSRead /\ [][NextTLSRead]_vars

(***************************************************************************)
(* Claims checked under SpecTLSRead.                                       *)
(***************************************************************************)
\* C21: what Read has delivered from a TLS-obfs connection is always the
\* beginning of the payload the records carry, and once Read has reported
\* the end of the stream it is the whole payload, however the records are
\* cut and however the bytes are split across reads.
C21_ReadUnframes ==
    /\ Len(trDelivered) <= Len(trPayload)
    /\ trDelivered = SubSeq(trPayload, 1, Len(trDelivered))
    /\ trRet.err => trDelivered = trPayload

(***************************************************************************)
(* SpecTLSWrite: obfsTLSConn.Write. The b of a call is given by its        *)
(* length; a chunk is the slice b[lo..hi] (first byte 1), and what goes on *)
(* the wire for it is the 5 header bytes followed by that slice. The       *)
(* underlying connection takes a record whole or fails.                    *)
(***************************************************************************)
maxRecordSize == 16384

\* The lengths of the b written: empty, one byte, and around one and two
\* full records.
TLSWriteLengths ==
    {0, 1, maxRecordSize - 1, maxRecordSize, maxRecordSize + 1,
     2 * maxRecordSize, 2 * maxRecordSize + 1}

\* The chunk size as it would be without the cap.
ChunkSize_Uncapped(remaining) == remaining

\* chunkSize := len(b) - written, capped at maxRecordSize.
ChunkSize(remaining) ==
    IF remaining > maxRecordSize THEN maxRecordSize ELSE remaining

\* The records of the loop of Write from written on, for a b of length n
\* written by call number c: header and slice of each.
RECURSIVE WriteRecords(_, _, _)
WriteRecords(c, n, written) ==
    IF written >= n THEN <<>>
    ELSE LET size == ChunkSize(n - written)
         IN  <<[hdr |-> TLSHeader(size % 65536), call |-> c,
                lo |-> written + 1, hi |-> written + size, whole |-> TRUE]>>
             \o WriteRecords(c, n, written + size)

InitTLSWrite ==
    /\ ManagerAtRest
    /\ ReloadIdle
    /\ ShutdownTwiceIdle
    /\ GetConfigIdle
    /\ CountersIdle
    /\ StopIdle
    /\ SpeedIdle
    /\ PoolIdle
    /\ RelayIdle
    /\ TargetIdle
    /\ DetectIdle
    /\ DialIdle
    /\ StatsIdle
    /\ ShutdownIdle
    /\ StartIdle
    /\ CipherIdle
    /\ ConfigIdle
    /\ ObfsWriteIdle
    /\ ObfsReadIdle
    /\ TLSReadIdle
    /\ twWire = <<>>
    /\ twCalls = <<>>
    /\ twRet = [n |-> 0, err |-> FALSE]
    /\ twFailed = FALSE

tlsWriteFrame == <<mainVars, reloadVars, detectVars, dialVars, statsVars,
                   shutdownVars, startVars, cipherVars, configVars,
                   obfsWriteVars, obfsReadVars, tlsReadVars, targetVars, relayVars, poolVars, speedVars, stopVars, counterVars, getConfigVars, stopTwiceVars>>

\* Write(b), len(b) = n, every c.Conn.Write succeeding: the records go out
\* one after the other and written, the sum of n - 5 over them, is returned.
TLSWrite(n) ==
    /\ Len(twCalls) < MaxTLSWrites
    /\ LET recs == WriteRecords(Len(twCalls) + 1, n, 0)
       IN  /\ twWire' = twWire \o recs
           /\ twRet' = [n |-> IF recs = <<>> THEN 0 ELSE recs[Len(recs)].hi, err |-> FALSE]
    /\ twCalls' = Append(twCalls, n)
    /\ UNCHANGED <<twFailed, tlsWriteFrame>>

\* Write(b), len(b) = n, the c.Conn.Write of one of its records failing:
\* the records before that one are out, of that one nothing or a part is,
\* and Write returns the count up to it and the error.
TLSWriteFails(n) ==
    /\ Len(twCalls) < MaxTLSWrites
    /\ LET recs == WriteRecords(Len(twCalls) + 1, n, 0)
       IN  \E f \in 1..Len(recs), part \in BOOLEAN :
               /\ twWire' = twWire \o SubSeq(recs, 1, f - 1)
                             \o (IF part THEN <<[recs[f] EXCEPT !.whole = FALSE]>> ELSE <<>>)
               /\ twRet' = [n |-> recs[f].lo - 1, err |-> TRUE]
    /\ twCalls' = Append(twCalls, n)
    /\ twFailed' = TRUE
    /\ UNCHANGED tlsWriteFrame

NextTLSWrite ==
    \/ \E n \in TLSWriteLengths : TLSWrite(n)
    \/ \E n \in TLSWriteLengths : TLSWriteFails(n)

SpecTLSWrite == InitTLSWrite /\ [][NextTLSWrite]_vars

(***************************************************************************)
(* Claims checked under SpecTLSWrite.                                      *)
(***************************************************************************)
\* The records on the wire that call number c wrote, in order.
RecordsOf(c) == SelectSeq(twWire, LAMBDA r : r.call = c)

\* C22: while no underlying write has failed, the records of each Write are
\* 0x17 0x03 0x03, the chunk length in two big-endian bytes, and the chunk;
\* the chunks are consecutive slices of b of 1 to 16384 bytes that start at
\* its first byte and end at its last; an empty b leaves no record; and the
\* last Write returned len(b).
C22_WriteFrames ==
    ~twFailed =>
        /\ \A c \in 1..Len(twCalls) :
              LET recs == RecordsOf(c)
              IN  /\ twCalls[c] = 0 <=> recs = <<>>
                  /\ recs # <<>> =>
                        /\ recs[1].lo = 1
                        /\ recs[Len(recs)].hi = twCalls[c]
                  /\ \A i \in 1..Len(recs) :
                        LET size == recs[i].hi - recs[i].lo + 1
                        IN  /\ recs[i].whole
                            /\ size \in 1..16384
                            /\ SubSeq(recs[i].hdr, 1, 3) = <<23, 3, 3>>
                            /\ Len(recs[i].hdr) = 5
                            /\ recs[i].hdr[4] * 256 + recs[i].hdr[5] = size
                            /\ recs[i].hdr[4] \in 0..255 /\ recs[i].hdr[5] \in 0..255
                            /\ i > 1 => recs[i].lo = recs[i - 1].hi + 1
        /\ twCalls # <<>> => twRet = [n |-> twCalls[Len(twCalls)], err |-> FALSE]
        /\ \A i \in 1..Len(twWire) : i > 1 => twWire[i].call >= twWire[i - 1].call

\* A b of two full records and one byte went out as three records after a
\* write of an empty b.
C22_Witness ==
    /\ ~twFailed
    /\ Len(twCalls) = 2
    /\ twCalls[1] = 0
    /\ Len(twWire) = 3
    /\ twWire[3].hi - twWire[3].lo = 0
    /\ twWire[1].hi = 16384

(***************************************************************************)
(* SpecTarget: how the authority of an HTTP request becomes the address    *)
(* given to Client.DialContext and the target written to the server.       *)
(* Addresses are as in SpecDial, port -1 standing for no ":port".          *)
(***************************************************************************)
\* The authorities asked for: a name, an IPv4 and an IPv6 address, each
\* without a port and with one.
Authorities ==
    { [name |-> "authority", kind |-> h[1], host |-> h[2], port |-> p] :
        h \in {<<"domain", ExampleCom>>, <<"ip4", <<1, 2, 3, 4>>>>, <<"ip6", Loopback6>>},
        p \in {-1, 80, 443, 8443} }

\* The address with port p when it has none.
WithDefaultPort(a, p) == IF a.port = -1 THEN [a EXCEPT !.port = p] ELSE a

\* The addr a CONNECT is dialed with: handleConnect passes req.Host as it
\* is; goproxy, which serves CONNECT in separate mode, appends ":80" to a
\* host without a port.
ConnectAddr(req) ==
    IF req.mode = "unified" THEN req.authority
    ELSE WithDefaultPort(req.authority, 80)

\* The addr http.Transport dials for a plain request: the URL's host, with
\* the port of the http scheme when it has none.
TransportAddr(req) == WithDefaultPort(req.authority, 80)

InitTarget ==
    /\ ManagerAtRest
    /\ ReloadIdle
    /\ ShutdownTwiceIdle
    /\ GetConfigIdle
    /\ CountersIdle
    /\ StopIdle
    /\ SpeedIdle
    /\ PoolIdle
    /\ RelayIdle
    /\ DetectIdle
    /\ DialIdle
    /\ StatsIdle
    /\ ShutdownIdle
    /\ StartIdle
    /\ CipherIdle
    /\ ConfigIdle
    /\ ObfsWriteIdle
    /\ ObfsReadIdle
    /\ TLSReadIdle
    /\ TLSWriteIdle
    /\ tqReq \in [method : {"CONNECT", "GET"}, authority : Authorities,
                  mode : {"unified", "separate"}]
    /\ tqAddr = <<>>
    /\ tqTgt = <<>>
    /\ tqStep = "request"
    /\ tqOut = "none"

targetFrame == <<mainVars, reloadVars, detectVars, dialVars, statsVars,
                 shutdownVars, startVars, cipherVars, configVars,
                 obfsWriteVars, obfsReadVars, tlsReadVars, tlsWriteVars, tqReq, relayVars, poolVars, speedVars, stopVars, counterVars, getConfigVars, stopTwiceVars>>

\* handleHTTP / goproxy: a CONNECT calls DialContext with its address.
ConnectRequest ==
    /\ tqStep = "request"
    /\ tqReq.method = "CONNECT"
    /\ tqAddr' = ConnectAddr(tqReq)
    /\ tqStep' = "parse"
    /\ UNCHANGED <<tqTgt, tqOut, targetFrame>>

\* handleHTTP / goproxy: any other request goes to http.Transport, which
\* calls DialContext with its address.
PlainRequest ==
    /\ tqStep = "request"
    /\ tqReq.method # "CONNECT"
    /\ tqAddr' = TransportAddr(tqReq)
    /\ tqStep' = "parse"
    /\ UNCHANGED <<tqTgt, tqOut, targetFrame>>

\* What the client is answered when DialContext returns an error.
DialErrorReply(req) == IF req.method = "CONNECT" THEN "502" ELSE "500"

\* DialContext: tgt := socks.ParseAddr(addr); nil is an error.
TargetParse ==
    /\ tqStep = "parse"
    /\ IF ParseAddr(tqAddr) = <<>>
       THEN /\ tqStep' = "done"
            /\ tqOut' = DialErrorReply(tqReq)
            /\ UNCHANGED tqTgt
       ELSE /\ tqStep' = "dial"
            /\ tqTgt' = ParseAddr(tqAddr)
            /\ UNCHANGED tqOut
    /\ UNCHANGED <<tqAddr, targetFrame>>

\* DialContext: the server is reached and tgt is written to it, or the
\* dial or the write fails.
TargetSend ==
    /\ tqStep = "dial"
    /\ \/ /\ tqStep' = "sent"
          /\ tqOut' = IF tqReq.method = "CONNECT" THEN "200" ELSE "none"
       \/ /\ tqStep' = "done"
          /\ tqOut' = DialErrorReply(tqReq)
    /\ UNCHANGED <<tqAddr, tqTgt, targetFrame>>

NextTarget ==
    \/ ConnectRequest
    \/ PlainRequest
    \/ TargetParse
    \/ TargetSend

SpecTarget == InitTarget /\ [][NextTarget]_vars

(***************************************************************************)
(* Claims checked under SpecTarget.                                        *)
(***************************************************************************)
\* C24: once DialContext has parsed its address, the target of a CONNECT
\* whose authority has no port is that host with port 443, and the target
\* of any other request whose URL has no port is that host with port 80.
C24_DefaultPorts ==
    (tqStep \in {"dial", "sent", "done"} /\ tqReq.authority.port = -1) =>
        LET p == IF tqReq.method = "CONNECT" THEN 443 ELSE 80
        IN  tqTgt = ParseAddr([tqReq.authority EXCEPT !.port = p])

(***************************************************************************)
(* SpecRelay: handleConnect from `errCh := make(chan error, 2)` on. Side   *)
(* "client" is clientConn and its peer, side "up" is targetConn and the    *)
(* server behind it. Copy "c2u" is io.Copy(targetConn, clientConn), copy   *)
(* "u2c" is io.Copy(clientConn, targetConn). A copy goroutine is at        *)
(*   read   in, or about to call, src.Read                                 *)
(*   write  holding a byte it read, about to call dst.Write                *)
(*   send   io.Copy returned, about to do errCh <- err                     *)
(*   exit   gone                                                           *)
(* and res is how its io.Copy ended: eof (nil error) or error.             *)
(***************************************************************************)
Sides == {"client", "up"}

Copies == {"c2u", "u2c"}

Src(g) == IF g = "c2u" THEN "client" ELSE "up"

Dst(g) == IF g = "c2u" THEN "up" ELSE "client"

\* The capacity of errCh.
ErrChCap == 2

InitRelay ==
    /\ ManagerAtRest
    /\ ReloadIdle
    /\ ShutdownTwiceIdle
    /\ GetConfigIdle
    /\ CountersIdle
    /\ StopIdle
    /\ SpeedIdle
    /\ PoolIdle
    /\ DetectIdle
    /\ DialIdle
    /\ StatsIdle
    /\ ShutdownIdle
    /\ StartIdle
    /\ CipherIdle
    /\ ConfigIdle
    /\ ObfsWriteIdle
    /\ ObfsReadIdle
    /\ TLSReadIdle
    /\ TLSWriteIdle
    /\ TargetIdle
    /\ rlPeer \in [Sides -> [left : 0..MaxRelayBytes, pending : {0}, fin : {FALSE}]]
    /\ rlSock = [s \in Sides |-> "open"]
    /\ rlRecv = [s \in Sides |-> 0]
    /\ rlCopy = [g \in Copies |-> [at |-> "read", res |-> "none"]]
    /\ errCh = <<>>
    /\ rlHandler = "wait"
    /\ rlGot = "none"
    /\ rlIdle = 0

relayFrame == <<mainVars, reloadVars, detectVars, dialVars, statsVars,
                shutdownVars, startVars, cipherVars, configVars,
                obfsWriteVars, obfsReadVars, tlsReadVars, tlsWriteVars,
                targetVars, poolVars, speedVars, stopVars, counterVars, getConfigVars, stopTwiceVars>>

\* The peer of side s sends a byte.
PeerSend(s) ==
    /\ rlPeer[s].left > 0
    /\ rlPeer' = [rlPeer EXCEPT ![s] = [@ EXCEPT !.left = @ - 1,
                                                 !.pending = @ + 1]]
    /\ UNCHANGED <<rlSock, rlRecv, rlCopy, errCh, rlHandler, rlGot, rlIdle, relayFrame>>

\* The peer of side s has sent everything and closes its sending side.
PeerFin(s) ==
    /\ rlPeer[s].left = 0
    /\ ~rlPeer[s].fin
    /\ rlPeer' = [rlPeer EXCEPT ![s].fin = TRUE]
    /\ UNCHANGED <<rlSock, rlRecv, rlCopy, errCh, rlHandler, rlGot, rlIdle, relayFrame>>

\* io.Copy of copy g: src.Read. A socket closed on this end gives an error;
\* else a byte that has arrived is read; else, after the peer's FIN, io.EOF
\* ends the copy with a nil error. Otherwise Read blocks.
CopyRead(g) ==
    /\ rlCopy[g].at = "read"
    /\ IF rlSock[Src(g)] = "closed"
       THEN /\ rlCopy' = [rlCopy EXCEPT ![g] = [at |-> "send", res |-> "error"]]
            /\ UNCHANGED rlPeer
       ELSE IF rlPeer[Src(g)].pending > 0
       THEN /\ rlPeer' = [rlPeer EXCEPT ![Src(g)].pending = @ - 1]
            /\ rlCopy' = [rlCopy EXCEPT ![g].at = "write"]
       ELSE /\ rlPeer[Src(g)].fin
            /\ rlCopy' = [rlCopy EXCEPT ![g] = [at |-> "send", res |-> "eof"]]
            /\ UNCHANGED rlPeer
    /\ UNCHANGED <<rlSock, rlRecv, errCh, rlHandler, rlGot, rlIdle, relayFrame>>

\* io.Copy of copy g: dst.Write of the byte read. A socket closed on this
\* end gives an error, which ends the copy.
CopyWrite(g) ==
    /\ rlCopy[g].at = "write"
    /\ IF rlSock[Dst(g)] = "closed"
       THEN /\ rlCopy' = [rlCopy EXCEPT ![g] = [at |-> "send", res |-> "error"]]
            /\ UNCHANGED <<rlRecv, rlIdle>>
       ELSE /\ rlRecv' = [rlRecv EXCEPT ![Dst(g)] = @ + 1]
            /\ rlCopy' = [rlCopy EXCEPT ![g].at = "read"]
            /\ rlIdle' = 0
    /\ UNCHANGED <<rlPeer, rlSock, errCh, rlHandler, rlGot, relayFrame>>

\* The send as it would be on a channel without a buffer: it needs the
\* handler to be receiving.
CopySend_Unbuffered(g) ==
    /\ rlCopy[g].at = "send"
    /\ rlHandler = "wait" /\ errCh = <<>>
    /\ errCh' = Append(errCh, rlCopy[g].res)
    /\ rlCopy' = [rlCopy EXCEPT ![g].at = "exit"]
    /\ UNCHANGED <<rlPeer, rlSock, rlRecv, rlHandler, rlGot, rlIdle, relayFrame>>

\* errCh <- err, then the goroutine ends. The send goes through while the
\* buffer has room.
CopySend(g) ==
    /\ rlCopy[g].at = "send"
    /\ Len(errCh) < ErrChCap
    /\ errCh' = Append(errCh, rlCopy[g].res)
    /\ rlCopy' = [rlCopy EXCEPT ![g].at = "exit"]
    /\ UNCHANGED <<rlPeer, rlSock, rlRecv, rlHandler, rlGot, rlIdle, relayFrame>>

\* <-errCh, then handleConnect returns: the deferred targetConn.Close() and
\* clientConn.Close() run.
HandlerReturn ==
    /\ rlHandler = "wait"
    /\ errCh # <<>>
    /\ rlGot' = Head(errCh)
    /\ errCh' = Tail(errCh)
    /\ rlHandler' = "returned"
    /\ rlSock' = [s \in Sides |-> "closed"]
    /\ UNCHANGED <<rlPeer, rlRecv, rlCopy, rlIdle, relayFrame>>

\* Time passes on an open tunnel. No Read or Write of the relay carries a
\* deadline.
RelayTick ==
    /\ rlHandler = "wait"
    /\ rlIdle <= IdleTimeout
    /\ rlIdle' = rlIdle + 1
    /\ UNCHANGED <<rlPeer, rlSock, rlRecv, rlCopy, errCh, rlHandler, rlGot, relayFrame>>

NextRelay ==
    \/ \E s \in Sides : PeerSend(s)
    \/ \E s \in Sides : PeerFin(s)
    \/ \E g \in Copies : CopyRead(g)
    \/ \E g \in Copies : CopyWrite(g)
    \/ \E g \in Copies : CopySend(g)
    \/ HandlerReturn
    \/ RelayTick

SpecRelay == InitRelay /\ [][NextRelay]_vars

\* The goroutines and the handler are scheduled: a step of theirs that
\* stays possible is taken. Nothing is assumed of the peers.
SpecRelayFair ==
    /\ SpecRelay
    /\ \A g \in Copies : /\ WF_vars(CopyRead(g))
                         /\ WF_vars(CopyWrite(g))
                         /\ WF_vars(CopySend(g))
    /\ WF_vars(HandlerReturn)

(***************************************************************************)
(* Claims checked under SpecRelay and SpecRelayFair.                       *)
(***************************************************************************)
\* C26: an open tunnel is never idle for longer than the idle timeout.
C26_IdleDeadline ==
    rlHandler = "wait" => rlIdle <= IdleTimeout

\* C29: once the io.Copy of either direction has returned, the handler
\* returns, both sockets are closed and both copy goroutines are gone; and
\* whenever the handler has returned both sockets are closed.
C29_RelayWindsDown ==
    /\ (\E g \in Copies : rlCopy[g].at \in {"send", "exit"})
          ~> (/\ rlHandler = "returned"
              /\ \A s \in Sides : rlSock[s] = "closed"
              /\ \A g \in Copies : rlCopy[g].at = "exit")
    /\ [](rlHandler = "returned" => \A s \in Sides : rlSock[s] = "closed")

\* Both goroutines are gone after the client ended the tunnel: one copy
\* ended with EOF, the other with the error of the closed socket, whose
\* result stays in the channel.
C29_Witness ==
    /\ rlHandler = "returned"
    /\ rlGot = "eof"
    /\ rlCopy["c2u"] = [at |-> "exit", res |-> "eof"]
    /\ rlCopy["u2c"] = [at |-> "exit", res |-> "error"]
    /\ errCh = <<"error">>

\* C30: when the handler returned because the client-to-upstream copy ended
\* with EOF, everything the upstream sent or was still to send has been
\* written to the client.
C30_HalfClose ==
    (rlHandler = "returned" /\ rlGot = "eof" /\ rlCopy["c2u"].res = "eof") =>
        /\ rlPeer["up"].left = 0
        /\ rlPeer["up"].pending = 0
        /\ rlCopy["u2c"].at # "write"

(***************************************************************************)
(* SpecPool: which upstream connection serves which client connection of   *)
(* the unified proxy. handleConnect and the SOCKS5 Dial closure call       *)
(* DialContext themselves, once, and their connection is closed with the   *)
(* tunnel. A plain request goes to u.httpProxy.Tr, one http.Transport for  *)
(* all client connections, built with DialContext alone: keep-alives are   *)
(* on, so it takes an idle connection to the same target when it has one,  *)
(* dials when it has none, and keeps the connection after the response.    *)
(*   at     new | want | busy | done | failed                              *)
(*   up     index in plUp of the upstream connection used, 0 for none      *)
(***************************************************************************)
ClientIds == 1..MaxClients

PoolTargets == {"a.example:80", "b.example:80"}

NewClientConn == [at |-> "new", kind |-> "none", target |-> "", dials |-> 0, up |-> 0]

InitPool ==
    /\ ManagerAtRest
    /\ ReloadIdle
    /\ ShutdownTwiceIdle
    /\ GetConfigIdle
    /\ CountersIdle
    /\ StopIdle
    /\ SpeedIdle
    /\ DetectIdle
    /\ DialIdle
    /\ StatsIdle
    /\ ShutdownIdle
    /\ StartIdle
    /\ CipherIdle
    /\ ConfigIdle
    /\ ObfsWriteIdle
    /\ ObfsReadIdle
    /\ TLSReadIdle
    /\ TLSWriteIdle
    /\ TargetIdle
    /\ RelayIdle
    /\ plConn = [c \in ClientIds |-> NewClientConn]
    /\ plUp = <<>>

poolFrame == <<mainVars, reloadVars, detectVars, dialVars, statsVars,
               shutdownVars, startVars, cipherVars, configVars,
               obfsWriteVars, obfsReadVars, tlsReadVars, tlsWriteVars,
               targetVars, relayVars, speedVars, stopVars, counterVars, getConfigVars, stopTwiceVars>>

\* The idle connections the Transport holds for target t.
IdleFor(t) ==
    {u \in 1..Len(plUp) : plUp[u].target = t /\ plUp[u].state = "idle"}

\* A client connection is accepted and its request read: a CONNECT, a
\* SOCKS5 request or a plain HTTP request, for one of the targets.
PoolRequest(c, k, t) ==
    /\ plConn[c].at = "new"
    /\ plConn' = [plConn EXCEPT ![c] = [@ EXCEPT !.at = "want", !.kind = k,
                                                  !.target = t]]
    /\ UNCHANGED <<plUp, poolFrame>>

\* DialContext is called for client connection c and succeeds or fails.
\* handleConnect and the SOCKS5 server call it at once; the Transport calls
\* it when it holds no idle connection to the target.
PoolDial(c) ==
    /\ plConn[c].at = "want"
    /\ plConn[c].kind = "plain" => IdleFor(plConn[c].target) = {}
    /\ \/ /\ plUp' = Append(plUp, [target |-> plConn[c].target, state |-> "busy",
                                   pooled |-> plConn[c].kind = "plain",
                                   users |-> {c}])
          /\ plConn' = [plConn EXCEPT ![c] = [@ EXCEPT !.at = "busy",
                                                        !.dials = @ + 1,
                                                        !.up = Len(plUp) + 1]]
       \/ /\ plConn' = [plConn EXCEPT ![c] = [@ EXCEPT !.at = "failed",
                                                        !.dials = @ + 1]]
          /\ UNCHANGED plUp
    /\ UNCHANGED poolFrame

\* The Transport serves the plain request of client connection c on an idle
\* connection it kept from an earlier request to the same target.
TransportReuse(c) ==
    /\ plConn[c].at = "want"
    /\ plConn[c].kind = "plain"
    /\ \E u \in IdleFor(plConn[c].target) :
          /\ plUp' = [plUp EXCEPT ![u] = [@ EXCEPT !.state = "busy",
                                                   !.users = @ \cup {c}]]
          /\ plConn' = [plConn EXCEPT ![c] = [@ EXCEPT !.at = "busy", !.up = u]]
    /\ UNCHANGED poolFrame

\* The exchange of client connection c is over. A tunnel's upstream
\* connection is closed by its handler; the Transport keeps the connection
\* of a plain request, unless the server closed it.
PoolDone(c) ==
    /\ plConn[c].at = "busy"
    /\ LET u == plConn[c].up
       IN  \E s \in (IF plUp[u].pooled THEN {"idle", "closed"} ELSE {"closed"}) :
               plUp' = [plUp EXCEPT ![u].state = s]
    /\ plConn' = [plConn EXCEPT ![c].at = "done"]
    /\ UNCHANGED poolFrame

NextPool ==
    \/ \E c \in ClientIds, k \in {"connect", "socks5", "plain"}, t \in PoolTargets :
          PoolRequest(c, k, t)
    \/ \E c \in ClientIds : PoolDial(c)
    \/ \E c \in ClientIds : TransportReuse(c)
    \/ \E c \in ClientIds : PoolDone(c)

SpecPool == InitPool /\ [][NextPool]_vars

(***************************************************************************)
(* Claims checked under SpecPool.                                          *)
(***************************************************************************)
\* C27: a client connection has made at most one dial; one that is or was
\* served has made exactly one and uses the connection that dial opened;
\* and no upstream connection has served more than one client connection.
C27_OneUpstreamEach ==
    /\ \A c \in ClientIds :
          /\ plConn[c].dials <= 1
          /\ plConn[c].at \in {"busy", "done"} =>
                /\ plConn[c].dials = 1
                /\ plConn[c].up \in 1..Len(plUp)
                /\ plUp[plConn[c].up].users = {c}
          /\ plConn[c].at = "failed" => plConn[c].up = 0
    /\ \A u \in 1..Len(plUp) : Cardinality(plUp[u].users) <= 1

(***************************************************************************)
(* SpecSpeed: the SpeedTracker of the Collector. Time is counted in ticks, *)
(* TicksPerSecond to the second; each AddSample call reads the clock under *)
(* the tracker's lock, so the calls are ordered and the clock never goes   *)
(* back between them. The counters handed in are those sampleSpeed loads,  *)
(* which only grow.                                                        *)
(***************************************************************************)
\* NewSpeedTracker(10 * time.Second)
windowSize == 10 * TicksPerSecond

\* How far the clock has moved on when AddSample reads it.
Delays == {0, 1, windowSize - 1, windowSize}

SentSteps == {0, 3}

ReceivedSteps == {0, 1}

\* The first index whose sample is After(cutoff), as the loop leaves
\* validIdx (counted from 1 here; 1 when there is none).
ValidIdx(samples, cutoff) ==
    LET after == {i \in DOMAIN samples : samples[i].timestamp > cutoff}
    IN  IF after = {} THEN 1
        ELSE CHOOSE i \in after : \A j \in after : i <= j

\* AddSample without the eviction.
AddSample_KeepsAll(samples, now, bytesSent, bytesReceived) ==
    Append(samples, [timestamp |-> now, sent |-> bytesSent, received |-> bytesReceived])

\* SpeedTracker.AddSample with the clock at now.
AddSample(samples, now, bytesSent, bytesReceived) ==
    LET appended == Append(samples, [timestamp |-> now, sent |-> bytesSent,
                                     received |-> bytesReceived])
        validIdx == ValidIdx(appended, now - windowSize)
    IN  IF validIdx > 1 THEN SubSeq(appended, validIdx, Len(appended))
        ELSE appended

\* int64(float64(diff) / duration), duration in seconds; diff is not negative.
PerSecond(diff, ticks) == (diff * TicksPerSecond) \div ticks

\* SpeedTracker.GetCurrentSpeed
GetCurrentSpeed(samples) ==
    IF Len(samples) < 2 THEN <<0, 0>>
    ELSE LET oldest == samples[1]
             newest == samples[Len(samples)]
             duration == newest.timestamp - oldest.timestamp
         IN  IF duration = 0 THEN <<0, 0>>
             ELSE <<PerSecond(newest.sent - oldest.sent, duration),
                    PerSecond(newest.received - oldest.received, duration)>>

InitSpeed ==
    /\ ManagerAtRest
    /\ ReloadIdle
    /\ ShutdownTwiceIdle
    /\ GetConfigIdle
    /\ CountersIdle
    /\ StopIdle
    /\ PoolIdle
    /\ RelayIdle
    /\ TargetIdle
    /\ TLSWriteIdle
    /\ TLSReadIdle
    /\ ObfsReadIdle
    /\ ObfsWriteIdle
    /\ ConfigIdle
    /\ CipherIdle
    /\ StartIdle
    /\ ShutdownIdle
    /\ StatsIdle
    /\ DetectIdle
    /\ DialIdle
    /\ stSamples = <<>>
    /\ stNow = 0
    /\ stCalls = 0
    /\ stAdded = <<>>
    /\ stSpeed = <<>>

speedFrame == <<mainVars, reloadVars, detectVars, dialVars, statsVars,
                shutdownVars, startVars, cipherVars, configVars, obfsWriteVars, obfsReadVars, tlsReadVars, tlsWriteVars, targetVars, relayVars, poolVars, stopVars, counterVars, getConfigVars, stopTwiceVars>>

\* sampleSpeed: a tick; the counters are loaded and AddSample runs.
SampleSpeed(d, ds, dr) ==
    /\ stCalls < MaxSamples
    /\ LET now == stNow + d
           bytesSent == (IF stAdded = <<>> THEN 0 ELSE stAdded[1].sent) + ds
           bytesReceived == (IF stAdded = <<>> THEN 0 ELSE stAdded[1].received) + dr
       IN  /\ stSamples' = AddSample(stSamples, now, bytesSent, bytesReceived)
           /\ stNow' = now
           /\ stAdded' = <<[timestamp |-> now, sent |-> bytesSent, received |-> bytesReceived]>>
    /\ stCalls' = stCalls + 1
    /\ stSpeed' = <<>>
    /\ UNCHANGED speedFrame

\* GetStats: c.speedTracker.GetCurrentSpeed()
ReadSpeed ==
    /\ stSpeed = <<>>
    /\ stSpeed' = <<GetCurrentSpeed(stSamples)>>
    /\ UNCHANGED <<stSamples, stNow, stCalls, stAdded, speedFrame>>

NextSpeed ==
    \/ \E d \in Delays, ds \in SentSteps, dr \in ReceivedSteps : SampleSpeed(d, ds, dr)
    \/ ReadSpeed

SpecSpeed == InitSpeed /\ [][NextSpeed]_vars

(***************************************************************************)
(* Claims checked under SpecSpeed.                                         *)
(***************************************************************************)
\* C32: after every AddSample the buffer is in time order, ends with the
\* sample just added and holds no sample as old as the window or older;
\* GetCurrentSpeed returns the difference of the newest and the oldest
\* sample per elapsed second for each direction, and (0, 0) with fewer than
\* two samples or no time elapsed.
C32_WindowAndSpeed ==
    /\ stCalls > 0 =>
        /\ \A i, j \in DOMAIN stSamples :
               i <= j => stSamples[i].timestamp <= stSamples[j].timestamp
        /\ Len(stSamples) >= 1
        /\ stSamples[Len(stSamples)] = stAdded[1]
        /\ \A i \in DOMAIN stSamples : stNow - stSamples[i].timestamp < windowSize
    /\ stSpeed # <<>> =>
        LET n == Len(stSamples)
            elapsed == IF n = 0 THEN 0
                       ELSE stSamples[n].timestamp - stSamples[1].timestamp
        IN  IF n < 2 \/ elapsed = 0 THEN stSpeed[1] = <<0, 0>>
            ELSE /\ stSpeed[1][1] * elapsed <= (stSamples[n].sent - stSamples[1].sent) * TicksPerSecond
                 /\ (stSamples[n].sent - stSamples[1].sent) * TicksPerSecond < (stSpeed[1][1] + 1) * elapsed
                 /\ stSpeed[1][2] * elapsed <= (stSamples[n].received - stSamples[1].received) * TicksPerSecond
                 /\ (stSamples[n].received - stSamples[1].received) * TicksPerSecond < (stSpeed[1][2] + 1) * elapsed

\* C32 witness: an AddSample evicted a sample that had left the window, and
\* GetCurrentSpeed returned a speed that is not zero over the two or more
\* samples left.
C32_Witness ==
    /\ stCalls = MaxSamples
    /\ Len(stSamples) < stCalls
    /\ Len(stSamples) >= 2
    /\ stSpeed # <<>>
    /\ stSpeed[1][1] > 0

(***************************************************************************)
(* SpecStop: the management endpoint /stop beside runStart, which waits on *)
(* its signal channel and calls Manager.Shutdown when a signal arrives.    *)
(* Requests are those the middleware has let through to handleStop.        *)
(***************************************************************************)
Methods == {"GET", "POST", "DELETE"}

InitStop ==
    /\ ManagerAtRest
    /\ ReloadIdle
    /\ ShutdownTwiceIdle
    /\ GetConfigIdle
    /\ CountersIdle
    /\ SpeedIdle
    /\ PoolIdle
    /\ RelayIdle
    /\ TargetIdle
    /\ TLSWriteIdle
    /\ TLSReadIdle
    /\ ObfsReadIdle
    /\ ObfsWriteIdle
    /\ ConfigIdle
    /\ CipherIdle
    /\ StartIdle
    /\ ShutdownIdle
    /\ StatsIdle
    /\ DetectIdle
    /\ DialIdle
    /\ apReq = <<>>
    /\ sigChan = 0
    /\ runPc = "waiting"
    /\ apListener = "open"

stopFrame == <<mainVars, reloadVars, detectVars, dialVars, statsVars,
               shutdownVars, startVars, cipherVars, configVars, obfsWriteVars, obfsReadVars, tlsReadVars, tlsWriteVars, targetVars, relayVars, poolVars, speedVars, counterVars, getConfigVars, stopTwiceVars>>

\* handleStop: 405 for a method other than POST; else the 200 response and
\* the goroutine that sleeps.
handleStop(m) ==
    /\ runPc = "waiting"
    /\ Len(apReq) < MaxStopRequests
    /\ apReq' = Append(apReq,
                       IF m # "POST"
                       THEN [method |-> m, status |-> 405, body |-> "method not allowed",
                             worker |-> "none"]
                       ELSE [method |-> m, status |-> 200, body |-> "Shutdown initiated",
                             worker |-> "sleeping"])
    /\ UNCHANGED <<sigChan, runPc, apListener, stopFrame>>

\* The goroutine of handleStop: the sleep ends, the request is logged, the
\* goroutine returns.
StopWorker(i) ==
    /\ i \in DOMAIN apReq
    /\ apReq[i].worker = "sleeping"
    /\ apReq' = [apReq EXCEPT ![i].worker = "returned"]
    /\ UNCHANGED <<sigChan, runPc, apListener, stopFrame>>

\* The operator sends SIGINT or SIGTERM; signal.Notify puts it in sigChan,
\* which has room for one.
SignalArrives ==
    /\ runPc = "waiting"
    /\ sigChan = 0
    /\ sigChan' = 1
    /\ UNCHANGED <<apReq, runPc, apListener, stopFrame>>

\* runStart: sig := <-sigChan, then mgr.Shutdown(ctx).
RunStartShutdown ==
    /\ runPc = "waiting"
    /\ sigChan > 0
    /\ sigChan' = sigChan - 1
    /\ runPc' = "shutdown"
    /\ apListener' = "closed"
    /\ UNCHANGED <<apReq, stopFrame>>

NextStop ==
    \/ \E m \in Methods : handleStop(m)
    \/ \E i \in 1..MaxStopRequests : StopWorker(i)
    \/ SignalArrives
    \/ RunStartShutdown

SpecStop == InitStop /\ [][NextStop]_vars

\* The goroutines of the process run; no signal has to arrive.
SpecStopFair ==
    /\ SpecStop
    /\ \A i \in 1..MaxStopRequests : WF_vars(StopWorker(i))
    /\ WF_vars(RunStartShutdown)

(***************************************************************************)
(* Claims checked under SpecStop.                                          *)
(***************************************************************************)
\* C33: a POST to /stop answered 200 leads to Manager.Shutdown running and
\* the listener closed; another method is answered 405 and starts nothing.
C33_StopShutsDown ==
    /\ [](\A i \in DOMAIN apReq :
             apReq[i].method # "POST" => apReq[i].status = 405 /\ apReq[i].worker = "none")
    /\ (\E i \in DOMAIN apReq : apReq[i].status = 200)
           ~> (runPc = "shutdown" /\ apListener = "closed")

(***************************************************************************)
(* SpecCounters: the Collector's connection counters one atomic operation  *)
(* at a time. RecordConnection is three Adds and TrackedConn.Close runs    *)
(* under the connection's mutex; the goroutines of different connections   *)
(* and the callers of Close interleave between any two of these            *)
(* operations. SpecSnapshot runs GetStats, four Loads, beside them, with   *)
(* each connection closed by one caller.                                   *)
(***************************************************************************)
CountedIds == 1..MaxCounted

\* The goroutines that call Close on one TrackedConn.
CloserIds == {1, 2}

\* RecordConnection: the counters in the order the Adds are made; "type" is
\* the counter of the proxy type.
RecordOrder_TypeFirst == <<"type", "total", "active">>

RecordOrder == <<"total", "active", "type">>

\* GetStats: the counters in the order the Loads are made.
LoadOrder == <<"total", "active", "http", "socks5">>

\* TrackedConn.Close as it would be if it recorded every call.
CloseRecords_Always(closed) == TRUE

\* TrackedConn.Close: if !t.closed
CloseRecords(closed) == ~closed

NewTracked == [pc |-> 0, proxyType |-> "", closed |-> FALSE, mu |-> 0,
               sock |-> "none", decs |-> 0, lateIO |-> FALSE]

InitCounters ==
    /\ ManagerAtRest
    /\ ReloadIdle
    /\ ShutdownTwiceIdle
    /\ GetConfigIdle
    /\ StopIdle
    /\ SpeedIdle
    /\ PoolIdle
    /\ RelayIdle
    /\ TargetIdle
    /\ TLSWriteIdle
    /\ TLSReadIdle
    /\ ObfsReadIdle
    /\ ObfsWriteIdle
    /\ ConfigIdle
    /\ CipherIdle
    /\ StartIdle
    /\ ShutdownIdle
    /\ StatsIdle
    /\ DetectIdle
    /\ DialIdle
    /\ ctr = [total |-> 0, active |-> 0, http |-> 0, socks5 |-> 0]
    /\ tc = [t \in CountedIds |-> NewTracked]
    /\ closer = [t \in CountedIds |-> [k \in CloserIds |-> "idle"]]
    /\ snap = [total |-> 0, active |-> 0, http |-> 0, socks5 |-> 0]
    /\ gsPc = 0

countersFrame == <<mainVars, reloadVars, detectVars, dialVars, statsVars,
                   shutdownVars, startVars, cipherVars, configVars, obfsWriteVars, obfsReadVars, tlsReadVars, tlsWriteVars, targetVars, relayVars, poolVars, speedVars, stopVars, getConfigVars, stopTwiceVars>>

\* The counter an Add or a Load names.
Field(name, proxyType) == IF name = "type" THEN proxyType ELSE name

\* NewTrackedConn is called for a dialed connection: RecordConnection begins.
NewTrackedConnCall(t, proxyType) ==
    /\ tc[t].pc = 0
    /\ \A u \in CountedIds : u < t => tc[u].pc > 0
    /\ tc' = [tc EXCEPT ![t].pc = 1, ![t].proxyType = proxyType, ![t].sock = "open"]
    /\ UNCHANGED <<ctr, closer, snap, gsPc, countersFrame>>

\* RecordConnection: the next Add(1); after the last, NewTrackedConn
\* returns the TrackedConn.
RecordAdd(t) ==
    /\ tc[t].pc \in 1..Len(RecordOrder)
    /\ LET f == Field(RecordOrder[tc[t].pc], tc[t].proxyType)
       IN  ctr' = [ctr EXCEPT ![f] = @ + 1]
    /\ tc' = [tc EXCEPT ![t].pc = @ + 1]
    /\ UNCHANGED <<closer, snap, gsPc, countersFrame>>

Returned(t) == tc[t].pc = Len(RecordOrder) + 1

\* TrackedConn.Close: t.mu.Lock()
CloseLock(t, k) ==
    /\ Returned(t)
    /\ closer[t][k] = "idle"
    /\ tc[t].mu = 0
    /\ tc' = [tc EXCEPT ![t].mu = k]
    /\ closer' = [closer EXCEPT ![t][k] = "check"]
    /\ UNCHANGED <<ctr, snap, gsPc, countersFrame>>

\* if !t.closed { t.closed = true; ... }
CloseCheck(t, k) ==
    /\ closer[t][k] = "check"
    /\ IF CloseRecords(tc[t].closed)
       THEN /\ tc' = [tc EXCEPT ![t].closed = TRUE]
            /\ closer' = [closer EXCEPT ![t][k] = "record"]
       ELSE /\ closer' = [closer EXCEPT ![t][k] = "connclose"]
            /\ UNCHANGED tc
    /\ UNCHANGED <<ctr, snap, gsPc, countersFrame>>

\* t.collector.RecordDisconnection()
CloseRecord(t, k) ==
    /\ closer[t][k] = "record"
    /\ ctr' = [ctr EXCEPT !.active = @ - 1]
    /\ tc' = [tc EXCEPT ![t].decs = @ + 1]
    /\ closer' = [closer EXCEPT ![t][k] = "connclose"]
    /\ UNCHANGED <<snap, gsPc, countersFrame>>

\* return t.Conn.Close(), and the deferred t.mu.Unlock()
CloseReturn(t, k) ==
    /\ closer[t][k] = "connclose"
    /\ tc' = [tc EXCEPT ![t].sock = "closed", ![t].mu = 0]
    /\ closer' = [closer EXCEPT ![t][k] = "returned"]
    /\ UNCHANGED <<ctr, snap, gsPc, countersFrame>>

\* TrackedConn.Read or Write on a connection already closed: the wrapped
\* connection returns an error and no byte count is recorded.
ReadWriteAfterClose(t) ==
    /\ tc[t].sock = "closed"
    /\ ~tc[t].lateIO
    /\ tc' = [tc EXCEPT ![t].lateIO = TRUE]
    /\ UNCHANGED <<ctr, closer, snap, gsPc, countersFrame>>

\* GetStats is called.
GetStatsCall ==
    /\ gsPc = 0
    /\ gsPc' = 1
    /\ UNCHANGED <<ctr, tc, closer, snap, countersFrame>>

\* GetStats: the next Load(); after the last the Stats value is returned.
GetStatsLoad ==
    /\ gsPc \in 1..Len(LoadOrder)
    /\ snap' = [snap EXCEPT ![LoadOrder[gsPc]] = ctr[LoadOrder[gsPc]]]
    /\ gsPc' = gsPc + 1
    /\ UNCHANGED <<ctr, tc, closer, countersFrame>>

NextCounters ==
    \/ \E t \in CountedIds, proxyType \in {"http", "socks5"} : NewTrackedConnCall(t, proxyType)
    \/ \E t \in CountedIds : RecordAdd(t)
    \/ \E t \in CountedIds, k \in CloserIds : CloseLock(t, k)
    \/ \E t \in CountedIds, k \in CloserIds : CloseCheck(t, k)
    \/ \E t \in CountedIds, k \in CloserIds : CloseRecord(t, k)
    \/ \E t \in CountedIds, k \in CloserIds : CloseReturn(t, k)
    \/ \E t \in CountedIds : ReadWriteAfterClose(t)

SpecCounters == InitCounters /\ [][NextCounters]_vars

\* GetStats beside the connections, each closed by its first caller only.
NextSnapshot ==
    \/ \E t \in CountedIds, proxyType \in {"http", "socks5"} : NewTrackedConnCall(t, proxyType)
    \/ \E t \in CountedIds : RecordAdd(t)
    \/ \E t \in CountedIds : CloseLock(t, 1)
    \/ \E t \in CountedIds : CloseCheck(t, 1)
    \/ \E t \in CountedIds : CloseRecord(t, 1)
    \/ \E t \in CountedIds : CloseReturn(t, 1)
    \/ GetStatsCall
    \/ GetStatsLoad

SpecSnapshot == InitCounters /\ [][NextSnapshot]_vars

(***************************************************************************)
(* Claims checked under SpecCounters and SpecSnapshot.                     *)
(***************************************************************************)
\* The connections whose RecordConnection has added to active_connections.
Activated == {t \in CountedIds : tc[t].pc > 0 /\ \E i \in 1..(tc[t].pc - 1) :
                                                   RecordOrder[i] = "active"}

\* C34: for each TrackedConn active_connections is decremented at most once
\* whatever the number of Close calls and of callers, exactly once when a
\* Close has returned, and nothing else, Read and Write after Close
\* included, changes it: it is the number of connections counted in minus
\* the number of connections closed.
C34_DecrementOnce ==
    /\ \A t \in CountedIds :
          /\ tc[t].decs <= 1
          /\ (\E k \in CloserIds : closer[t][k] = "returned") => tc[t].decs = 1
    /\ ctr.active = Cardinality(Activated)
                    - Cardinality({t \in CountedIds : tc[t].decs > 0})

\* C34 witness: every caller has closed the same connection, Read or Write
\* was called on it afterwards, and it was counted out once.
C34_Witness ==
    \E t \in CountedIds :
        /\ \A k \in CloserIds : closer[t][k] = "returned"
        /\ tc[t].lateIO
        /\ tc[t].decs = 1
        /\ ctr.active = 0

RecordInProgress == \E t \in CountedIds : tc[t].pc \in 1..Len(RecordOrder)

\* C35: in every state 0 <= active_connections <= total_connections and
\* http_connections + socks5_connections <= total_connections, with
\* equality in the second while no RecordConnection call is in progress.
C35_CounterBounds ==
    /\ 0 <= ctr.active
    /\ ctr.active <= ctr.total
    /\ ctr.http + ctr.socks5 <= ctr.total
    /\ ~RecordInProgress => ctr.http + ctr.socks5 = ctr.total

\* C35 witness: one connection is counted and closed while the
\* RecordConnection of another is between its Adds.
C35_Witness ==
    /\ \E t \in CountedIds : tc[t].decs = 1
    /\ \E t \in CountedIds : tc[t].pc = 2
    /\ ctr.total = 2

\* C36: every Stats value GetStats returns has ActiveConnections <=
\* TotalConnections and HTTPConnections + SOCKS5Connections <=
\* TotalConnections.
C36_SnapshotConsistent ==
    gsPc = Len(LoadOrder) + 1 =>
        /\ snap.active <= snap.total
        /\ snap.http + snap.socks5 <= snap.total

(***************************************************************************)
(* SpecGetConfig: handleConfig beside ReloadConfig. GetConfig returns the  *)
(* pointer m.config under the read lock; the handler then reads the        *)
(* fields of cfg.Shadowsocks through it, holding no lock. ReloadConfig     *)
(* assigns m.config.Shadowsocks = newConfig in place, under the write      *)
(* lock; the assignment copies the struct field by field, in no fixed      *)
(* order.                                                                  *)
(***************************************************************************)
\* The fields handleConfig reads, in the order it reads them.
HandlerFields == <<"Server", "Cipher", "Plugin", "PluginOpts">>

\* The reload requests NewClient accepts.
UsableReloads == {c \in ReloadInputs : NewClient(c, 0).ok}

NoWriter == [pc |-> "idle", newConfig |-> InitialSS, left |-> {}]

NoResponse == [f \in {HandlerFields[i] : i \in DOMAIN HandlerFields} |-> "unread"]

InitGetConfig ==
    /\ ManagerAtRest
    /\ ReloadIdle
    /\ ShutdownTwiceIdle
    /\ CountersIdle
    /\ StopIdle
    /\ SpeedIdle
    /\ PoolIdle
    /\ RelayIdle
    /\ TargetIdle
    /\ TLSWriteIdle
    /\ TLSReadIdle
    /\ ObfsReadIdle
    /\ ObfsWriteIdle
    /\ ConfigIdle
    /\ CipherIdle
    /\ StartIdle
    /\ ShutdownIdle
    /\ StatsIdle
    /\ DetectIdle
    /\ DialIdle
    /\ gcConfig = InitialSS
    /\ gcMu = FALSE
    /\ gcWriter = NoWriter
    /\ gcReloads = 0
    /\ gcReader = [pc |-> 0, resp |-> NoResponse]
    /\ gcPublished = {InitialSS}

getConfigFrame == <<mainVars, reloadVars, detectVars, dialVars, statsVars,
                    shutdownVars, startVars, cipherVars, configVars, obfsWriteVars, obfsReadVars, tlsReadVars, tlsWriteVars, targetVars, relayVars, poolVars, speedVars, stopVars, counterVars, stopTwiceVars>>

\* cfg := s.manager.GetConfig(): RLock, return m.config, RUnlock.
GetConfig ==
    /\ gcReader.pc = 0
    /\ ~gcMu
    /\ gcReader' = [gcReader EXCEPT !.pc = 1]
    /\ UNCHANGED <<gcConfig, gcMu, gcWriter, gcReloads, gcPublished, getConfigFrame>>

\* handleConfig: the next cfg.Shadowsocks.<field> is read through the
\* pointer.
handleConfigRead ==
    /\ gcReader.pc \in DOMAIN HandlerFields
    /\ LET f == HandlerFields[gcReader.pc]
       IN  gcReader' = [gcReader EXCEPT !.resp[f] = gcConfig[f], !.pc = @ + 1]
    /\ UNCHANGED <<gcConfig, gcMu, gcWriter, gcReloads, gcPublished, getConfigFrame>>

\* ReloadConfig(newConfig): NewClient succeeds, m.ssClientMu.Lock(), the
\* client is swapped.
ConfigReloadLock(newConfig) ==
    /\ gcWriter.pc = "idle"
    /\ gcReloads < MaxReloads
    /\ ~gcMu
    /\ gcMu' = TRUE
    /\ gcWriter' = [pc |-> "store", newConfig |-> newConfig,
                    left |-> {HandlerFields[i] : i \in DOMAIN HandlerFields}]
    /\ gcReloads' = gcReloads + 1
    /\ gcPublished' = gcPublished \cup {newConfig}
    /\ UNCHANGED <<gcConfig, gcReader, getConfigFrame>>

\* m.config.Shadowsocks = newConfig: one more field is copied.
ConfigStoreField(f) ==
    /\ gcWriter.pc = "store"
    /\ f \in gcWriter.left
    /\ gcConfig' = [gcConfig EXCEPT ![f] = gcWriter.newConfig[f]]
    /\ gcWriter' = [gcWriter EXCEPT !.left = @ \ {f}]
    /\ UNCHANGED <<gcMu, gcReloads, gcReader, gcPublished, getConfigFrame>>

\* The deferred m.ssClientMu.Unlock(); ReloadConfig returns.
ConfigReloadUnlock ==
    /\ gcWriter.pc = "store"
    /\ gcWriter.left = {}
    /\ gcMu' = FALSE
    /\ gcWriter' = NoWriter
    /\ UNCHANGED <<gcConfig, gcReloads, gcReader, gcPublished, getConfigFrame>>

NextGetConfig ==
    \/ GetConfig
    \/ handleConfigRead
    \/ \E newConfig \in UsableReloads : ConfigReloadLock(newConfig)
    \/ \E f \in {HandlerFields[i] : i \in DOMAIN HandlerFields} : ConfigStoreField(f)
    \/ ConfigReloadUnlock

SpecGetConfig == InitGetConfig /\ [][NextGetConfig]_vars

(***************************************************************************)
(* Claims checked under SpecGetConfig.                                     *)
(***************************************************************************)
\* C37: the Shadowsocks settings a caller of GetConfig has read are, taken
\* together, the settings of one published client, and no field is read
\* while ReloadConfig is writing the struct.
C37_ConfigReadWhole ==
    /\ [](gcReader.pc = Len(HandlerFields) + 1 =>
            \E c \in gcPublished :
                \A i \in DOMAIN HandlerFields :
                    gcReader.resp[HandlerFields[i]] = c[HandlerFields[i]])
    /\ [][gcReader'.pc # gcReader.pc /\ gcReader.pc > 0 => ~gcMu]_vars

(***************************************************************************)
(* SpecShutdownTwice: Manager.Shutdown invoked up to MaxShutdowns times on *)
(* a started manager in unified mode, with or without statistics, one      *)
(* statement group at a time, beside the sampleSpeed goroutine and the     *)
(* Reporter's goroutine.                                                   *)
(***************************************************************************)
InitShutdownTwice ==
    /\ ManagerAtRest
    /\ ReloadIdle
    /\ GetConfigIdle
    /\ CountersIdle
    /\ StopIdle
    /\ SpeedIdle
    /\ PoolIdle
    /\ RelayIdle
    /\ TargetIdle
    /\ TLSWriteIdle
    /\ TLSReadIdle
    /\ ObfsReadIdle
    /\ ObfsWriteIdle
    /\ ConfigIdle
    /\ CipherIdle
    /\ StartIdle
    /\ ShutdownIdle
    /\ StatsIdle
    /\ DetectIdle
    /\ DialIdle
    /\ sdOn \in BOOLEAN
    /\ sdPc = "idle"
    /\ sdCalls = 0
    /\ sdCtx = "live"
    /\ sdDone = "open"
    /\ sdTicker = "running"
    /\ sdSampler = IF sdOn THEN "running" ELSE "none"
    /\ sdTicks = 0
    /\ sdReporter = IF sdOn THEN "running" ELSE "none"
    /\ sdListener = "open"
    /\ sdPanic = FALSE

shutdownTwiceFrame == <<mainVars, reloadVars, detectVars, dialVars, statsVars,
                        shutdownVars, startVars, cipherVars, configVars, obfsWriteVars, obfsReadVars, tlsReadVars, tlsWriteVars, targetVars, relayVars, poolVars, speedVars, stopVars, counterVars, getConfigVars>>

\* Manager.Shutdown is invoked: m.cancelFunc().
ShutdownInvoke ==
    /\ ~sdPanic
    /\ sdPc = "idle"
    /\ sdCalls < MaxShutdowns
    /\ sdCalls' = sdCalls + 1
    /\ sdCtx' = "cancelled"
    /\ sdPc' = "reporter"
    /\ UNCHANGED <<sdOn, sdDone, sdTicker, sdSampler, sdTicks, sdReporter,
                   sdListener, sdPanic, shutdownTwiceFrame>>

\* if m.reporter != nil { m.reporter.Stop() }: r.cancel()
ReporterStop ==
    /\ ~sdPanic
    /\ sdPc = "reporter"
    /\ sdReporter' = IF sdOn /\ sdReporter = "running" THEN "cancelled" ELSE sdReporter
    /\ sdPc' = "collector"
    /\ UNCHANGED <<sdOn, sdCalls, sdCtx, sdDone, sdTicker, sdSampler, sdTicks,
                   sdListener, sdPanic, shutdownTwiceFrame>>

\* if m.collector != nil { m.collector.Stop() }: c.ticker.Stop(), then
\* close(c.done), which panics on a channel already closed.
CollectorStop ==
    /\ ~sdPanic
    /\ sdPc = "collector"
    /\ IF ~sdOn
       THEN /\ sdPc' = "proxy"
            /\ UNCHANGED <<sdTicker, sdDone, sdPanic>>
       ELSE /\ sdTicker' = "stopped"
            /\ IF sdDone = "closed"
               THEN sdPanic' = TRUE /\ sdPc' = "panicked" /\ UNCHANGED sdDone
               ELSE sdDone' = "closed" /\ sdPc' = "proxy" /\ UNCHANGED sdPanic
    /\ UNCHANGED <<sdOn, sdCalls, sdCtx, sdSampler, sdTicks, sdReporter,
                   sdListener, shutdownTwiceFrame>>

\* The final statistics are logged; m.unifiedProxy.Shutdown(ctx) closes the
\* listener (an error on a listener already closed is logged); return nil.
ProxyShutdown ==
    /\ ~sdPanic
    /\ sdPc = "proxy"
    /\ sdListener' = "closed"
    /\ sdPc' = "idle"
    /\ UNCHANGED <<sdOn, sdCalls, sdCtx, sdDone, sdTicker, sdSampler, sdTicks,
                   sdReporter, sdPanic, shutdownTwiceFrame>>

\* sampleSpeed: case <-c.ticker.C
SamplerTick ==
    /\ ~sdPanic
    /\ sdSampler = "running"
    /\ sdTicker = "running"
    /\ sdTicks < MaxSamples
    /\ sdTicks' = sdTicks + 1
    /\ UNCHANGED <<sdOn, sdPc, sdCalls, sdCtx, sdDone, sdTicker, sdSampler,
                   sdReporter, sdListener, sdPanic, shutdownTwiceFrame>>

\* sampleSpeed: case <-c.done: return
SamplerReturn ==
    /\ ~sdPanic
    /\ sdSampler = "running"
    /\ sdDone = "closed"
    /\ sdSampler' = "returned"
    /\ UNCHANGED <<sdOn, sdPc, sdCalls, sdCtx, sdDone, sdTicker, sdTicks,
                   sdReporter, sdListener, sdPanic, shutdownTwiceFrame>>

\* Reporter.Start's goroutine: case <-ctx.Done(): return
ReporterReturn ==
    /\ ~sdPanic
    /\ sdReporter = "cancelled"
    /\ sdReporter' = "returned"
    /\ UNCHANGED <<sdOn, sdPc, sdCalls, sdCtx, sdDone, sdTicker, sdSampler,
                   sdTicks, sdListener, sdPanic, shutdownTwiceFrame>>

NextShutdownTwice ==
    \/ ShutdownInvoke
    \/ ReporterStop
    \/ CollectorStop
    \/ ProxyShutdown
    \/ SamplerTick
    \/ SamplerReturn
    \/ ReporterReturn

SpecShutdownTwice == InitShutdownTwice /\ [][NextShutdownTwice]_vars

(***************************************************************************)
(* Claims checked under SpecShutdownTwice.                                 *)
(***************************************************************************)
\* C38: no invocation of Manager.Shutdown panics, and when a second or later
\* invocation has returned the sampler's ticker is stopped and its channel
\* closed, the reporter is cancelled and the listener is closed.
C38_ShutdownRepeatable ==
    /\ ~sdPanic
    /\ (sdCalls >= 2 /\ sdPc = "idle") =>
          /\ sdListener = "closed"
          /\ sdOn => /\ sdTicker = "stopped"
                     /\ sdDone = "closed"
                     /\ sdReporter \in {"cancelled", "returned"}

(***************************************************************************)
(* Claims checked under Spec.                                              *)
(***************************************************************************)
Tracked == {c \in ConnIds : conn[c].tracked # "none"}

\* C1: every connection counted by the collector adds exactly 1 to
\* total_connections, and once the handler of an HTTP CONNECT tunnel or of a
\* SOCKS5 connection has finished, active_connections no longer counts it.
C1_CountedOnceAndReleased ==
    /\ stats.total = Cardinality(Tracked)
    /\ \A c \in ConnIds :
         (conn[c].state = "done" /\ conn[c].kind \in {"connect", "socks5"})
            => conn[c].tracked # "open"
    /\ (\A c \in ConnIds : conn[c].kind \in {"none", "connect", "socks5"}
                           /\ conn[c].state \in {"free", "done"})
         => stats.active = 0

\* C2: a dial begun after a successful ReloadConfig is made with the client
\* that reload published: every dial uses the client that is current when
\* the dial begins, in unified and in separate mode.
C2_DialUsesCurrentClient ==
    \A c \in ConnIds :
        conn[c].curAtDial # 0 => conn[c].client.id = conn[c].curAtDial

\* C3: a ReloadConfig step leaves every relaying connection exactly as it
\* was: same stream, still open, same client (cipher and plugin).
C3_ReloadKeepsInflight ==
    [][ reloads' # reloads =>
          \A c \in ConnIds :
              conn[c].state = "relay" =>
                  /\ conn'[c] = conn[c]
                  /\ conn'[c].upSock = "open"
                  /\ conn'[c].clientSock = "open" ]_vars

\* C3 witness: a connection is relaying, with data moved, on a client that a
\* reload has retired.
C3_Witness ==
    \E c \in ConnIds :
        /\ conn[c].state = "relay"
        /\ conn[c].upSock = "open"
        /\ conn[c].client.id # ssClient.id
        /\ \E i \in 1..Len(oldClients) : oldClients[i] = conn[c].client
        /\ Count(conn[c].out, "data") > 0

\* A dialer is usable when its cipher is known and its plugin, if any, has
\* options and an obfs mode the plugin can wrap.
UsableParameters(cfg) ==
    /\ cfg.Cipher \in SupportedCiphers
    /\ cfg.Plugin \in {"simple-obfs", "obfs-local"} =>
          /\ cfg.PluginOpts.set
          /\ cfg.PluginOpts.Obfs \in {"", "http", "tls"}

\* C4: a reload whose parameters give no usable dialer returns an error and
\* leaves the current client, the retained list and the configuration alone.
C4_UnusableReloadRejected ==
    [][ \A cfg \in ReloadInputs :
          (ReloadWith(cfg) /\ ~UsableParameters(cfg)) =>
              /\ lastReload' = "error"
              /\ UNCHANGED <<ssClient, oldClients, config>> ]_vars

\* C6: a ReloadConfig step, failed or not, leaves the listener, the accept
\* loop, config.Proxies, the counters and the connections unchanged; a
\* failed one changes nothing else either, a successful one changes only
\* the current client, the retained list and config.Shadowsocks.
C6_ReloadFrame ==
    [][ reloads' # reloads =>
          /\ UNCHANGED <<listener, ctxDone, acceptLoop, stats, conn,
                         captured, collectorOn, crashed>>
          /\ config'.Proxies = config.Proxies
          /\ lastReload' = "error" => UNCHANGED <<ssClient, oldClients, config>>
          /\ lastReload' = "ok" =>
                /\ oldClients' = Append(oldClients, ssClient)
                /\ ssClient'.id \notin {ssClient.id} \cup
                                  {oldClients[i].id : i \in 1..Len(oldClients)} ]_vars

\* C6 witness: a reload succeeded in separate mode while a connection was
\* counted and relaying.
C6_Witness ==
    /\ lastReload = "ok"
    /\ config.Proxies = "separate"
    /\ config.Shadowsocks # InitialSS
    /\ stats.total > 0
    /\ \E c \in ConnIds : conn[c].state = "relay" /\ conn[c].client.id # ssClient.id

\* C8: no connection is still waiting for its target once the handshake
\* timeout has passed since it was accepted.
C8_HandshakeBounded ==
    \A c \in ConnIds :
        conn[c].state \in Handshaking => conn[c].age <= HandshakeTimeout

C11_SocketsClosedOnExit ==
    ~crashed =>
        \A c \in ConnIds :
            conn[c].state = "done" =>
                /\ conn[c].clientSock # "open"
                /\ (conn[c].kind # "plain" \/ conn[c].dial # "ok")
                      => conn[c].upSock # "open"

\* C23: a panic raised while a connection is handled never takes the
\* process down, and the connection it was raised for has been closed.
C23_PanicCaught ==
    /\ ~crashed
    /\ \A c \in ConnIds :
          conn[c].dial = "panic" => conn[c].clientSock = "closed"

\* C25: a connection whose bytes did not parse as an HTTP request was
\* answered 400 and nothing else, is closed, and no dial was made for it.
C25_BadRequestAnswered ==
    \A c \in ConnIds :
        conn[c].kind = "malformed" =>
            /\ conn[c].out = <<"400">>
            /\ conn[c].clientSock = "closed"
            /\ conn[c].dial = "none" /\ conn[c].upSock = "none"

====
